---- MODULE Spec2Model ----
(***************************************************************************)
(* A model of the Canvas / Palette / Blitter rendering engine of the RISC  *)
(* OS port of Puzzles: canvas.c, blitter.c, game_draw.c and the drawing    *)
(* entry points of game_window.c.                                          *)
(*                                                                         *)
(* Pointers are sequences of length 0 (NULL) or 1 (the block pointed to).  *)
(* Calls into the operating system (OS_SpriteOp, OS_Plot, Draw, Font, VDU) *)
(* are modelled by their effect on the sprite area, the VDU state and the  *)
(* pixels; whether such a call reports an error is an input of the action. *)
(* Every action records in "call" the operation, its arguments, its return *)
(* value and the heap and operating system calls it issued, in order.      *)
(***************************************************************************)
EXTENDS Integers, Sequences, FiniteSets, TLC

VARIABLES
    canvas,     \* the game window's struct canvas_block
    window,     \* the fields of struct game_window_block the drawing code reads
    path,       \* game_draw.c's static path buffer state
    vdu,        \* the operating system's graphics state
    image,      \* the pixels of the game window canvas sprite, by sample point
    set,        \* the window's struct blitter_set_block
    blitter,    \* the heap of struct blitter_block, by address: NULL where free
    target,     \* the pixels of the current output (screen or canvas sprite)
    call        \* the most recent call and what it did

vars == <<canvas, window, path, vdu, image, set, blitter, target, call>>

(***************************************************************************)
(* Bounds of the model.                                                    *)
(***************************************************************************)

\* Canvas and blitter widths and heights run from -1 to MaxDim.
MaxDim == 2

\* The number of base colours a game supplies runs from 0 to MaxColours
\* (plus the boundary counts of EdgeCounts).
MaxColours == 2

\* The number of struct blitter_block the heap has room for.
MaxBlitters == 2

\* Canvas widths run from 1 to MaxWidth where the row stride is looked at.
MaxWidth == 64

(***************************************************************************)
(* Program constants: canvas.c                                             *)
(***************************************************************************)

CANVAS_AREA_HEADER_SIZE == 16

CANVAS_SPRITE_HEADER_SIZE == 44

CANVAS_MAX_PALETTE_ENTRIES == 256

CANVAS_MAX_PALETTE_ERROR == 5

CANVAS_GRADIENT_LENGTH == 5

CANVAS_PALETTE_SIZE == CANVAS_MAX_PALETTE_ENTRIES * 4 * 2

\* The number of OS units to a canvas pixel (PIXEL_SCALE in the design notes).
CANVAS_PIXEL_SIZE == 2

\* An os_colour is a word 0xBBGGRR00; the model holds its top 24 bits, so that
\* every colour is a number the checker can hold.
os_COLOUR_BLACK == 0

\* 0xFFFFFF00
os_COLOUR_WHITE == 16777215

NULL == <<>>

\* A palette entry, or a context word, that has never been written.
Undef == -1

BoolStr(b) == IF b THEN "TRUE" ELSE "FALSE"

(***************************************************************************)
(* canvas.c: macros                                                        *)
(***************************************************************************)

canvas_does_sprite_exist(area) == area.first # area.used

\* Every sprite taken to have a palette.
PaletteAssumed(sprite) == TRUE

canvas_does_palette_exist(sprite) == sprite.image # CANVAS_SPRITE_HEADER_SIZE

\* (r << 8) | (g << 16) | (b << 24), for components in 0..255
canvas_make_os_colour(r, g, b) == (r + g * 256 + b * 65536) % 16777216

\* (colour >> 8) & 0xff
canvas_get_os_colour_red(colour) == colour % 256

\* (colour >> 16) & 0xff
canvas_get_os_colour_green(colour) == (colour \div 256) % 256

\* (colour >> 24) & 0xff
canvas_get_os_colour_blue(colour) == (colour \div 65536) % 256

(***************************************************************************)
(* canvas.c: instances                                                     *)
(***************************************************************************)

\* saved_context0..3 are not initialised by canvas_create_instance.
canvas_create_instance ==
    [ size |-> [x |-> 0, y |-> 0],
      sprite_area |-> NULL,
      save_area |-> NULL,
      redirection_active |-> FALSE,
      saved_context |-> "undef" ]

\* canvas_delete_instance: the calls of free() it makes.
canvas_delete_instance(instance) ==
    [log |-> (IF instance.sprite_area # NULL
                 THEN <<[op |-> "free", a |-> "sprite_area"]>> ELSE <<>>)
             \o (IF instance.save_area # NULL
                    THEN <<[op |-> "free", a |-> "save_area"]>> ELSE <<>>)]

\* The row taken up to a whole number of words, with no bytes added for the
\* blitters.
RowStrideWordsOnly(width) == 4 * ((width + 3) \div 4)

\* (width + 6) taken up to the next multiple of 4.
RowStrideRoundedUp(width) == 4 * ((width + 6 + 3) \div 4)

\* The row length allocated for each row of the sprite: (width + 6) & 0xfffffffc,
\* for the widths of the model, which are far from the ends of the int range.
RowStride(width) == (width + 6) - ((width + 6) % 4)

\* The size requested from malloc() or realloc() by canvas_configure_area.
AreaSize(width, height, include_palette) ==
    (IF width > 0 /\ height > 0
        THEN CANVAS_AREA_HEADER_SIZE + CANVAS_SPRITE_HEADER_SIZE + (RowStride(width) * height)
        ELSE CANVAS_SPRITE_HEADER_SIZE)
    + (IF include_palette THEN CANVAS_PALETTE_SIZE ELSE 0)

\* OS_SpriteOp 9: initialise the area's control block, leaving it empty.
xosspriteop_clear_sprites(area) == [area EXCEPT !.used = area.first]

\* The bytes OS_SpriteOp 15 needs for a 256 colour sprite with no palette: the
\* header and one byte per pixel, each row a whole number of words.  A sprite
\* with no pixels still needs its header.
SpriteBytes(width, height) ==
    CANVAS_SPRITE_HEADER_SIZE
        + (IF width > 0 /\ height > 0 THEN (4 * ((width + 3) \div 4)) * height ELSE 0)

\* OS_SpriteOp 15: whether the new sprite fits in the free space of the area.
SpriteFits(area, width, height) == SpriteBytes(width, height) <= area.size - area.used

xosspriteop_create_sprite(area, width, height) ==
    [area EXCEPT !.used = area.used + SpriteBytes(width, height),
                 !.sprite = [size |-> SpriteBytes(width, height),
                             image |-> CANVAS_SPRITE_HEADER_SIZE,
                             width |-> width, height |-> height],
                 !.palette = [entries |-> <<>>, rest |-> Undef]]

canvas_insert_265_palette(area) ==
    IF ~canvas_does_sprite_exist(area)
        THEN [area |-> area, ret |-> FALSE, log |-> <<>>]
    ELSE IF canvas_does_palette_exist(area.sprite)
        THEN [area |-> area, ret |-> FALSE, log |-> <<>>]
    ELSE IF area.used # area.first + area.sprite.size
        THEN [area |-> area, ret |-> FALSE,
              log |-> <<[op |-> "error_msgs_report_error", a |-> "SpriteBadArea"]>>]
    ELSE IF area.size - area.used < CANVAS_PALETTE_SIZE
        THEN [area |-> area, ret |-> FALSE,
              log |-> <<[op |-> "error_msgs_report_error", a |-> "SpriteNoSpaceForPalette"]>>]
    ELSE [area |-> [area EXCEPT !.used = area.used + CANVAS_PALETTE_SIZE,
                                !.sprite.size = area.sprite.size + CANVAS_PALETTE_SIZE,
                                !.sprite.image = area.sprite.image + CANVAS_PALETTE_SIZE],
          ret |-> TRUE, log |-> <<>>]

\* The faults a call of canvas_configure_area can meet, the first one deciding:
\* malloc()/realloc() returning NULL, OS_SpriteOp 9 or OS_SpriteOp 15
\* returning an error.
ConfigureFaults == {"none", "alloc", "clear", "create"}

canvas_configure_area(instance, width, height, include_palette, fault) ==
    LET area_size == AreaSize(width, height, include_palette)
        zeroed == [instance EXCEPT
                      !.size = [x |-> 0, y |-> 0],
                      !.save_area = IF instance.save_area # NULL
                                       THEN <<[instance.save_area[1] EXCEPT !.word0 = 0]>>
                                       ELSE NULL]
        alloc == [op |-> IF instance.sprite_area = NULL THEN "malloc" ELSE "realloc",
                  size |-> area_size]
        fresh == [size |-> area_size, first |-> CANVAS_AREA_HEADER_SIZE,
                  used |-> CANVAS_AREA_HEADER_SIZE,
                  sprite |-> [size |-> 0, image |-> CANVAS_SPRITE_HEADER_SIZE,
                              width |-> 0, height |-> 0],
                  palette |-> [entries |-> <<>>, rest |-> Undef]]
        cleared == xosspriteop_clear_sprites(fresh)
        created == xosspriteop_create_sprite(cleared, width, height)
        inserted == canvas_insert_265_palette(created)
    IN  IF fault = "alloc"
            THEN [instance |-> [zeroed EXCEPT !.sprite_area = NULL],
                  ret |-> FALSE, log |-> <<alloc>>]
        ELSE IF fault = "clear"
            THEN [instance |-> [zeroed EXCEPT !.sprite_area = NULL], ret |-> FALSE,
                  log |-> <<alloc, [op |-> "xosspriteop_clear_sprites", a |-> "error"],
                            [op |-> "error_report_os_error", a |-> ""],
                            [op |-> "free", a |-> "sprite_area"]>>]
        ELSE IF area_size = CANVAS_AREA_HEADER_SIZE
            THEN [instance |-> [zeroed EXCEPT !.sprite_area = <<cleared>>], ret |-> FALSE,
                  log |-> <<alloc, [op |-> "xosspriteop_clear_sprites", a |-> ""],
                            [op |-> "error_msgs_report_error", a |-> "SpriteBadDims"]>>]
        ELSE IF fault = "create" \/ ~SpriteFits(cleared, width, height)
            THEN [instance |-> [zeroed EXCEPT !.sprite_area = NULL], ret |-> FALSE,
                  log |-> <<alloc, [op |-> "xosspriteop_clear_sprites", a |-> ""],
                            [op |-> "xosspriteop_create_sprite", a |-> "error"],
                            [op |-> "error_report_os_error", a |-> ""],
                            [op |-> "free", a |-> "sprite_area"]>>]
        ELSE IF include_palette /\ ~inserted.ret
            THEN [instance |-> [zeroed EXCEPT !.sprite_area = <<inserted.area>>,
                                              !.size = [x |-> width, y |-> height]],
                  ret |-> FALSE,
                  log |-> <<alloc, [op |-> "xosspriteop_clear_sprites", a |-> ""],
                            [op |-> "xosspriteop_create_sprite", a |-> ""]>> \o inserted.log]
        ELSE [instance |-> [zeroed EXCEPT
                               !.sprite_area = <<IF include_palette THEN inserted.area
                                                                    ELSE created>>,
                               !.size = [x |-> width, y |-> height]],
              ret |-> TRUE,
              log |-> <<alloc, [op |-> "xosspriteop_clear_sprites", a |-> ""],
                        [op |-> "xosspriteop_create_sprite", a |-> ""]>>]

\* The pixels of a sprite as OS_SpriteOp 15 leaves them: a blank sprite, held
\* as a function from the pixel <<column, row>>, rows counted from the bottom,
\* to its colour number.  A sprite of no pixels, or no sprite, has none.
BlankImage(width, height) ==
    [p \in (0..(width - 1)) \X (0..(height - 1)) |-> 0]

\* The pixels of the sprite of a canvas that has just been configured.
SpriteImage(instance) ==
    IF instance.sprite_area # NULL /\ canvas_does_sprite_exist(instance.sprite_area[1])
        THEN BlankImage(instance.sprite_area[1].sprite.width,
                        instance.sprite_area[1].sprite.height)
        ELSE BlankImage(0, 0)

\* The save area is held by its first word, which is zero until the operating
\* system has saved a context in it.
canvas_configure_save_area(instance, fault) ==
    IF instance.sprite_area = NULL
        THEN [instance |-> instance, ret |-> FALSE, log |-> <<>>]
    ELSE IF ~canvas_does_sprite_exist(instance.sprite_area[1])
        THEN [instance |-> instance, ret |-> FALSE, log |-> <<>>]
    ELSE IF fault = "size"
        THEN [instance |-> instance, ret |-> FALSE,
              log |-> <<[op |-> "xosspriteop_read_save_area_size", a |-> "error"],
                        [op |-> "error_report_os_error", a |-> ""]>>]
    ELSE IF fault = "alloc"
        THEN [instance |-> [instance EXCEPT !.save_area = NULL], ret |-> FALSE,
              log |-> <<[op |-> "xosspriteop_read_save_area_size", a |-> ""],
                        [op |-> IF instance.save_area = NULL THEN "malloc" ELSE "realloc",
                         a |-> "save_area"]>>]
    ELSE [instance |-> [instance EXCEPT !.save_area =
                            <<[word0 |-> 0]>>],
          ret |-> TRUE,
          log |-> <<[op |-> "xosspriteop_read_save_area_size", a |-> ""],
                    [op |-> IF instance.save_area = NULL THEN "malloc" ELSE "realloc",
                     a |-> "save_area"]>>]

SaveAreaFaults == {"none", "size", "alloc"}

(***************************************************************************)
(* canvas.c: palette synthesis                                             *)
(*                                                                         *)
(* A float channel value c is held as the integer c * FloatOne, so that    *)
(* every input and every product c * 0xff is exact in a C float.  The      *)
(* synthesis state is [pal, n, trap]: the palette, the number of entries   *)
(* defined so far (palette_entries) and whether a division by zero has     *)
(* stopped the program.  A palette is held as [entries, rest]: its first    *)
(* entries one by one, and the value that every entry after them holds.    *)
(***************************************************************************)

PaletteAt(palette, i) ==
    IF i <= Len(palette.entries) THEN palette.entries[i] ELSE palette.rest

Max(a, b) == IF a >= b THEN a ELSE b

FloatOne == 256

\* c * 0xff taken to the nearest integer, halves upwards.
FloatToByteRounded(c) == ((2 * c * 255) + FloatOne) \div (2 * FloatOne)

\* (int) (c * 0xff): the conversion truncates.
FloatToByte(c) == (c * 255) \div FloatOne

\* C's integer division truncates towards zero.
CDiv(a, b) == IF a >= 0 THEN a \div b ELSE -((-a) \div b)

Abs(a) == IF a >= 0 THEN a ELSE -a

\* Integer division by zero is undefined in C.  The build either stops the
\* program with an error (-1 here), or carries on with a quotient: 0 or
\* INT_MAX.
DivideByZeroOutcomes == {-1, 0, 2147483647}

\* 100 * abs(c - c1) / c
ChannelError(c, c1, dz) == IF c = 0 THEN dz ELSE (100 * Abs(c - c1)) \div c

canvas_set_palette_entry(palette, entry, colour) ==
    IF entry >= 0 /\ entry < CANVAS_MAX_PALETTE_ENTRIES
        THEN [palette EXCEPT !.entries =
                 [i \in 1..Max(Len(palette.entries), entry + 1) |->
                     IF i = entry + 1 THEN colour ELSE PaletteAt(palette, i)]]
        ELSE palette

\* palette->entries[entry].on, read: an entry never written, or one beyond the
\* end of the table, holds whatever the memory holds.
ReadEntry(palette, entry, garbage) ==
    IF entry >= 0 /\ entry < CANVAS_MAX_PALETTE_ENTRIES
            /\ PaletteAt(palette, entry + 1) # Undef
        THEN PaletteAt(palette, entry + 1)
        ELSE garbage

\* for (entry = 0; entry < number_of_colours; entry++): entry palette_entries++
\* takes the colour of the next game colour.
GameColoursLoop(st, colours, number_of_colours) ==
    [st EXCEPT
        !.pal.entries = [i \in 1..Max(Len(st.pal.entries), st.n + number_of_colours) |->
                    IF i > st.n /\ i <= st.n + number_of_colours
                        THEN canvas_make_os_colour(FloatToByte(colours[i - st.n][1]),
                                                   FloatToByte(colours[i - st.n][2]),
                                                   FloatToByte(colours[i - st.n][3]))
                        ELSE PaletteAt(st.pal, i)],
        !.n = st.n + number_of_colours]

canvas_set_palette_game_colours(st, colours, number_of_colours) ==
    IF st.n >= CANVAS_MAX_PALETTE_ENTRIES THEN st
    ELSE IF number_of_colours < 0
              \/ number_of_colours >= CANVAS_MAX_PALETTE_ENTRIES - st.n THEN st
    ELSE GameColoursLoop(st, colours, number_of_colours)

\* The colour of one step of a gradient.
GradientChannel(c_start, c_end, step, points) ==
    (CDiv((c_end - c_start) * step, points) + c_start) % 256

\* The search for a close entry, finding none.
NeverCloseEnough(r, g, b, existing, dz) == FALSE

\* Whether the gradient colour (r, g, b) is close enough to an existing entry.
CloseEnough(r, g, b, existing, dz) ==
    /\ ChannelError(r, canvas_get_os_colour_red(existing), dz) < CANVAS_MAX_PALETTE_ERROR
    /\ ChannelError(g, canvas_get_os_colour_green(existing), dz) < CANVAS_MAX_PALETTE_ERROR
    /\ ChannelError(b, canvas_get_os_colour_blue(existing), dz) < CANVAS_MAX_PALETTE_ERROR

RECURSIVE GradientLoop(_, _, _, _, _, _)
GradientLoop(st, start, end, points, step, dz) ==
    IF step > points \/ st.trap THEN st
    ELSE LET r == GradientChannel(canvas_get_os_colour_red(start),
                                  canvas_get_os_colour_red(end), step, points)
             g == GradientChannel(canvas_get_os_colour_green(start),
                                  canvas_get_os_colour_green(end), step, points)
             b == GradientChannel(canvas_get_os_colour_blue(start),
                                  canvas_get_os_colour_blue(end), step, points)
         IN  IF st.n > 0 /\ dz = -1 /\ (r = 0 \/ g = 0 \/ b = 0)
                 THEN [st EXCEPT !.trap = TRUE]
             ELSE IF \E search \in 0..(st.n - 1) :
                         CloseEnough(r, g, b, PaletteAt(st.pal, search + 1), dz)
                 THEN GradientLoop(st, start, end, points, step + 1, dz)
             ELSE GradientLoop(
                     [st EXCEPT !.pal = canvas_set_palette_entry(st.pal, st.n,
                                            canvas_make_os_colour(r, g, b)),
                                !.n = st.n + 1],
                     start, end, points, step + 1, dz)

\* No gradient built, however much room the palette has.
GradientAlwaysRefused(palette_entries, points) == TRUE

\* The test of the room left, passing a gradient that fills the table.
GradientRefusedLate(palette_entries, points) ==
    \/ palette_entries >= CANVAS_MAX_PALETTE_ENTRIES
    \/ points < 1
    \/ points > CANVAS_MAX_PALETTE_ENTRIES - palette_entries

\* "There must be a valid number of colours."
GradientRefused(palette_entries, points) ==
    \/ palette_entries >= CANVAS_MAX_PALETTE_ENTRIES
    \/ points < 1
    \/ points >= CANVAS_MAX_PALETTE_ENTRIES - palette_entries

canvas_set_pallete_build_gradient(st, start, end, points, dz) ==
    IF st.trap THEN st
    ELSE IF GradientRefused(st.n, points) THEN st
    ELSE GradientLoop(st, start, end, points, 1, dz)

\* for (; palette_entries < CANVAS_MAX_PALETTE_ENTRIES; palette_entries++)
FillLoop(st) ==
    [st EXCEPT
        !.pal = [entries |-> [i \in 1..st.n |-> PaletteAt(st.pal, i)],
                 rest |-> os_COLOUR_WHITE],
        !.n = CANVAS_MAX_PALETTE_ENTRIES]

canvas_set_palette_fill_unused(st) ==
    IF st.trap THEN st
    ELSE IF st.n >= CANVAS_MAX_PALETTE_ENTRIES THEN st
    ELSE FillLoop(st)

\* for (end = lo; end <= hi; end++) build the gradient from entry start to
\* entry end.  The range is run in two halves, one after the other, to keep
\* the evaluation shallow; the calls are made in the order of the loop.
\* Once a gradient is refused for want of room every later one is, and the
\* rest of the loop is not run through.
RECURSIVE GradientEnds(_, _, _, _, _, _)
GradientEnds(st, start, lo, hi, dz, garbage) ==
    IF lo > hi \/ st.trap THEN st
    ELSE IF lo = hi
        THEN canvas_set_pallete_build_gradient(st, ReadEntry(st.pal, start, garbage),
                 ReadEntry(st.pal, lo, garbage), CANVAS_GRADIENT_LENGTH, dz)
    ELSE IF GradientRefused(st.n, CANVAS_GRADIENT_LENGTH) THEN st
    ELSE GradientEnds(GradientEnds(st, start, lo, (lo + hi) \div 2, dz, garbage),
                      start, ((lo + hi) \div 2) + 1, hi, dz, garbage)

\* for (start = lo; start <= hi; start++)
\*     for (end = start + 1; end < number_of_colours; end++)
RECURSIVE GradientStarts(_, _, _, _, _, _)
GradientStarts(st, lo, hi, number_of_colours, dz, garbage) ==
    IF lo > hi \/ st.trap THEN st
    ELSE IF lo = hi
        THEN GradientEnds(st, lo, lo + 1, number_of_colours - 1, dz, garbage)
    ELSE IF GradientRefused(st.n, CANVAS_GRADIENT_LENGTH) THEN st
    ELSE GradientStarts(
            GradientStarts(st, lo, (lo + hi) \div 2, number_of_colours, dz, garbage),
            ((lo + hi) \div 2) + 1, hi, number_of_colours, dz, garbage)

\* The palette after canvas_set_game_colours, from a palette that exists.
BuildPalette(palette, colours, number_of_colours, dz, garbage) ==
    LET st0 == [pal |-> palette, n |-> 0, trap |-> FALSE]
        st1 == canvas_set_palette_game_colours(st0, colours, number_of_colours)
        st2 == canvas_set_pallete_build_gradient(st1, os_COLOUR_BLACK, os_COLOUR_WHITE,
                                                 10, dz)
        st3 == GradientStarts(st2, 0, number_of_colours - 2, number_of_colours, dz, garbage)
    IN  canvas_set_palette_fill_unused(st3)

\* The first colours of the test game: the background, black and red.
TestGameColours == << <<256, 256, 256>>, <<0, 0, 0>>, <<256, 0, 0>> >>

\* The colours handed over with a count: as many as the count, or for a count
\* that is too large the array of the test game, which is not read.
ColoursFor(number_of_colours) ==
    IF number_of_colours <= Len(TestGameColours)
        THEN SubSeq(TestGameColours, 1, number_of_colours)
        ELSE TestGameColours

\* The outcomes of a division by zero tried with a count as large as the
\* palette: the program is stopped, or the quotient is the largest integer.
OversizeOutcomes == {-1, 2147483647}

\* The counts whose palettes are worked out once: the first colours of the
\* test game, and a count as large as the palette.
PaletteCounts == (0..Len(TestGameColours)) \cup {CANVAS_MAX_PALETTE_ENTRIES}

\* Whether the palette of the count and the outcome is one worked out once.
PaletteKnown(number_of_colours, dz) ==
    /\ number_of_colours \in PaletteCounts
    /\ dz \in DivideByZeroOutcomes
    /\ number_of_colours = CANVAS_MAX_PALETTE_ENTRIES => dz \in OversizeOutcomes

\* The palettes built for the test game on a canvas that has just been
\* configured, worked out once; where none is worked out the palette is left
\* as it was, and is not looked up.
TestGamePalettes ==
    [n \in PaletteCounts, dz \in DivideByZeroOutcomes |->
        IF PaletteKnown(n, dz)
            THEN BuildPalette([entries |-> <<>>, rest |-> Undef], ColoursFor(n), n, dz,
                              os_COLOUR_BLACK)
            ELSE [pal |-> [entries |-> <<>>, rest |-> Undef], n |-> 0, trap |-> FALSE]]

\* BuildPalette, the palettes already worked out being looked up.  No entry
\* that was never written is read for a count the palette accepts.
SynthesisePalette(palette, colours, number_of_colours, dz, garbage) ==
    IF /\ palette = [entries |-> <<>>, rest |-> Undef]
       /\ PaletteKnown(number_of_colours, dz)
       /\ colours = ColoursFor(number_of_colours)
       /\ number_of_colours < CANVAS_MAX_PALETTE_ENTRIES \/ garbage = os_COLOUR_BLACK
        THEN TestGamePalettes[number_of_colours, dz]
        ELSE BuildPalette(palette, colours, number_of_colours, dz, garbage)

canvas_set_game_colours(instance, colours, number_of_colours, dz, garbage) ==
    IF instance.sprite_area = NULL
        THEN [instance |-> instance, ret |-> "FALSE"]
    ELSE IF ~canvas_does_sprite_exist(instance.sprite_area[1])
        THEN [instance |-> instance, ret |-> "FALSE"]
    ELSE IF ~canvas_does_palette_exist(instance.sprite_area[1].sprite)
        THEN [instance |-> instance, ret |-> "FALSE"]
    ELSE LET st == SynthesisePalette(instance.sprite_area[1].palette, colours,
                                     number_of_colours, dz, garbage)
         IN  [instance |-> [instance EXCEPT !.sprite_area[1].palette = st.pal],
              ret |-> IF st.trap THEN "trap"
                      ELSE BoolStr(st.n = CANVAS_MAX_PALETTE_ENTRIES)]

\* The test of the entry number left out.
NoEntryOutOfRange(entry) == FALSE

EntryOutOfRange(entry) == entry < 0 \/ entry >= CANVAS_MAX_PALETTE_ENTRIES

\* The result is the colour returned.  An entry of the palette that has never
\* been written, or one beyond the end of the table, holds whatever the
\* memory holds.
canvas_get_palette_entry(instance, entry, garbage) ==
    IF instance.sprite_area = NULL THEN os_COLOUR_BLACK
    ELSE IF ~canvas_does_sprite_exist(instance.sprite_area[1]) THEN os_COLOUR_BLACK
    ELSE IF EntryOutOfRange(entry) THEN os_COLOUR_BLACK
    ELSE IF ~canvas_does_palette_exist(instance.sprite_area[1].sprite) THEN os_COLOUR_BLACK
    ELSE ReadEntry(instance.sprite_area[1].palette, entry, garbage)


(***************************************************************************)
(* Inputs                                                                  *)
(***************************************************************************)

\* The widths and heights asked for: negative, zero and positive.
DimRange == -1..MaxDim

\* The colours a game can supply, as float triples in units of 1 / FloatOne:
\* black, mid grey, red, and one colour with no zero channel.
GameColours ==
    { <<0, 0, 0>>, <<128, 128, 128>>, <<256, 0, 0>>, <<256, 128, 64>> }

\* The colour counts on either side of the valid range 0 <= n < 256: the arrays
\* passed with them hold one colour throughout.
EdgeCounts == {-1, 255}

\* The (colours, number_of_colours) pairs passed to canvas_set_game_colours.
ColourInputs ==
    { [colours |-> cs, n |-> Len(cs)] :
          cs \in UNION { [1..k -> GameColours] : k \in 0..MaxColours } }
    \cup
    { [colours |-> [i \in 1..(IF n < 0 THEN 0 ELSE n) |-> c], n |-> n] :
          n \in EdgeCounts, c \in {<<0, 0, 0>>, <<128, 128, 128>>} }

\* What uninitialised memory can hold when it is read as a colour.
Garbage == {os_COLOUR_BLACK, os_COLOUR_WHITE}

(***************************************************************************)
(* The initial state: a game window instance as game_window_create_instance*)
(* leaves it, with an empty canvas and an empty blitter set.               *)
(***************************************************************************)

\* The addresses malloc() can give a struct blitter_block.
Addresses == 1..MaxBlitters

blitter_create_set == [blitters |-> NULL]

\* The current output is TargetWidth pixels wide and TargetHeight high, so that
\* a blitter of the largest height fits at two heights.
TargetWidth == 2

TargetHeight == MaxDim + 1

\* What the current output shows before anything is painted on it: a chequer
\* board of two colours, so that no two neighbouring pixels are alike.
ScreenAtStart ==
    [p \in (0..(TargetWidth - 1)) \X (0..(TargetHeight - 1)) |-> (p[1] + p[2]) % 2]

Init ==
    /\ canvas = canvas_create_instance
    /\ window = [number_of_colours |-> 0, window_size |-> [x |-> 0, y |-> 0],
                 callback_timer_active |-> FALSE, last_callback |-> 0,
                 events |-> [callbacks |-> 0, time |-> 0]]
    /\ path = [length |-> 0, valid |-> TRUE, elements |-> <<>>]
    /\ vdu = [output |-> "screen", colour |-> 0, clip |-> <<>>]
    /\ image = BlankImage(0, 0)
    /\ set = blitter_create_set
    /\ blitter = [address \in Addresses |-> NULL]
    /\ target = ScreenAtStart
    /\ call = [op |-> "game_window_create_instance", ret |-> "ptr", log |-> <<>>]

\* A division by zero that stops the program ends the run.
Running == call.ret # "trap"

(***************************************************************************)
(* Actions: the canvas interface, on the game window's canvas              *)
(***************************************************************************)

CanvasConfigureArea ==
    /\ Running
    /\ \E width \in DimRange, height \in DimRange, include_palette \in BOOLEAN,
          fault \in ConfigureFaults :
          LET r == canvas_configure_area(canvas, width, height, include_palette, fault)
          IN  /\ canvas' = r.instance
              /\ image' = SpriteImage(r.instance)
              /\ call' = [op |-> "canvas_configure_area",
                          args |-> [width |-> width, height |-> height,
                                    include_palette |-> include_palette],
                          ret |-> BoolStr(r.ret), log |-> r.log]
    /\ UNCHANGED <<window, path, vdu, set, blitter, target>>

\* Whether the canvas holds a sprite with a palette.
HasPalette(instance) ==
    /\ instance.sprite_area # NULL
    /\ canvas_does_sprite_exist(instance.sprite_area[1])
    /\ canvas_does_palette_exist(instance.sprite_area[1].sprite)

\* Whether every entry of the canvas palette has been written.
PaletteProgrammed(instance) ==
    /\ HasPalette(instance)
    /\ \A i \in 1..CANVAS_MAX_PALETTE_ENTRIES :
          PaletteAt(instance.sprite_area[1].palette, i) # Undef

\* The palette of a configured canvas is programmed once, as
\* game_window_create_canvas does.
CanvasSetGameColours ==
    /\ Running
    /\ ~PaletteProgrammed(canvas)
    /\ \E in \in ColourInputs, dz \in DivideByZeroOutcomes, garbage \in Garbage :
          LET r == canvas_set_game_colours(canvas, in.colours, in.n, dz, garbage)
          IN  /\ canvas' = r.instance
              /\ call' = [op |-> "canvas_set_game_colours",
                          args |-> [colours |-> in.colours, number_of_colours |-> in.n],
                          ret |-> r.ret, log |-> <<>>]
    /\ UNCHANGED <<window, path, vdu, image, set, blitter, target>>

NextPalette == CanvasConfigureArea \/ CanvasSetGameColours

SpecPalette == Init /\ [][NextPalette]_vars

(***************************************************************************)
(* Actions: the palette of a game whose colours all but fill the table     *)
(***************************************************************************)

\* The numbers of game colours that leave the black to white gradient just
\* room enough, one slot too few, and no room at all.
NearFullCounts ==
    {CANVAS_MAX_PALETTE_ENTRIES - 11, CANVAS_MAX_PALETTE_ENTRIES - 10,
     CANVAS_MAX_PALETTE_ENTRIES - 1}

\* The canvas is configured with a palette at one pixel by one, and without
\* one at every size.
CanvasConfigureAreaForPalette ==
    /\ Running
    /\ \E width \in DimRange, height \in DimRange, include_palette \in BOOLEAN,
          fault \in ConfigureFaults :
          /\ include_palette => (width = 1 /\ height = 1 /\ fault = "none")
          /\ LET r == canvas_configure_area(canvas, width, height, include_palette, fault)
             IN  /\ canvas' = r.instance
                 /\ image' = SpriteImage(r.instance)
                 /\ call' = [op |-> "canvas_configure_area",
                             args |-> [width |-> width, height |-> height,
                                       include_palette |-> include_palette],
                             ret |-> BoolStr(r.ret), log |-> r.log]
    /\ UNCHANGED <<window, path, vdu, set, blitter, target>>

CanvasSetManyGameColours ==
    /\ Running
    /\ ~PaletteProgrammed(canvas)
    /\ \E n \in NearFullCounts, c \in {<<0, 0, 0>>, <<128, 128, 128>>}, dz \in {-1, 0} :
          LET r == canvas_set_game_colours(canvas, [i \in 1..n |-> c], n, dz,
                                           os_COLOUR_BLACK)
          IN  /\ canvas' = r.instance
              /\ call' = [op |-> "canvas_set_game_colours",
                          args |-> [colour |-> c, number_of_colours |-> n],
                          ret |-> r.ret, log |-> <<>>]
    /\ UNCHANGED <<window, path, vdu, image, set, blitter, target>>

NextNearFull == CanvasConfigureAreaForPalette \/ CanvasSetManyGameColours

SpecNearFull == Init /\ [][NextNearFull]_vars

(***************************************************************************)
(* Actions: reading the palette of a canvas, before and after the colours  *)
(* of the test game are set                                                *)
(***************************************************************************)

\* The entries asked for: the ends of the table and the numbers either side.
EntryNumbers == {-1, 0, 1, CANVAS_MAX_PALETTE_ENTRIES - 1, CANVAS_MAX_PALETTE_ENTRIES}

CanvasSetTestGameColours ==
    /\ Running
    /\ ~PaletteProgrammed(canvas)
    /\ \E n \in 0..Len(TestGameColours), dz \in DivideByZeroOutcomes, garbage \in Garbage :
          LET r == canvas_set_game_colours(canvas, SubSeq(TestGameColours, 1, n), n,
                                           dz, garbage)
          IN  /\ canvas' = r.instance
              /\ call' = [op |-> "canvas_set_game_colours",
                          args |-> [colours |-> SubSeq(TestGameColours, 1, n),
                                    number_of_colours |-> n],
                          ret |-> r.ret, log |-> <<>>]
    /\ UNCHANGED <<window, path, vdu, image, set, blitter, target>>

CanvasGetPaletteEntry ==
    /\ Running
    /\ \E entry \in EntryNumbers, garbage \in Garbage :
          /\ call' = [op |-> "canvas_get_palette_entry", args |-> <<entry>>,
                      ret |-> "os_colour",
                      colour |-> canvas_get_palette_entry(canvas, entry, garbage),
                      log |-> <<>>]
    /\ UNCHANGED <<canvas, window, path, vdu, image, set, blitter, target>>

NextQuery ==
    \/ CanvasConfigureArea
    \/ CanvasSetTestGameColours
    \/ CanvasGetPaletteEntry

SpecQuery == Init /\ [][NextQuery]_vars

(***************************************************************************)
(* canvas.c: size and VDU redirection                                      *)
(*                                                                         *)
(* The output of the VDU drivers is either the screen or the canvas        *)
(* sprite.  OS_SpriteOp 60 switches it and hands back the previous         *)
(* context, which the model holds as the previous output.                  *)
(***************************************************************************)

canvas_get_size(instance) == instance.size

canvas_is_redirection_active(instance) ==
    /\ instance.sprite_area # NULL
    /\ instance.save_area # NULL
    /\ instance.redirection_active = TRUE

\* The tests of redirection_active, left out.
StartNeverRefused(instance) == FALSE

StopNeverRefused(instance) == FALSE

\* "We can't start redirection if it's already active!"
StartRefusedWhileActive(instance) == instance.redirection_active = TRUE

\* "We can't stop redirection if it isn't active!"
StopRefusedWhileInactive(instance) == instance.redirection_active = FALSE

\* The result is [instance, output, ret, log]: output is where the VDU drivers
\* write after the call; error is whether OS_SpriteOp 60 reports an error.
\* canvas_start_redirection without its test of the save area.
StartWithoutSaveArea(instance, output, error) ==
    IF instance.sprite_area = NULL
        THEN [instance |-> instance, output |-> output, ret |-> FALSE, log |-> <<>>]
    ELSE [instance |-> [instance EXCEPT !.redirection_active = TRUE,
                                        !.saved_context = output],
          output |-> "canvas", ret |-> TRUE,
          log |-> <<[op |-> "xosspriteop_switch_output_to_sprite", a |-> "canvas"]>>]

canvas_start_redirection(instance, output, error) ==
    IF instance.sprite_area = NULL \/ instance.save_area = NULL
        THEN [instance |-> instance, output |-> output, ret |-> FALSE, log |-> <<>>]
    ELSE IF ~canvas_does_sprite_exist(instance.sprite_area[1])
        THEN [instance |-> instance, output |-> output, ret |-> FALSE, log |-> <<>>]
    ELSE IF StartRefusedWhileActive(instance)
        THEN [instance |-> instance, output |-> output, ret |-> FALSE, log |-> <<>>]
    ELSE IF error
        THEN [instance |-> instance, output |-> output, ret |-> FALSE,
              log |-> <<[op |-> "xosspriteop_switch_output_to_sprite", a |-> "error"],
                        [op |-> "error_report_os_error", a |-> ""]>>]
    ELSE [instance |-> [instance EXCEPT !.redirection_active = TRUE,
                                        !.saved_context = output,
                                        !.save_area[1].word0 = 1],
          output |-> "canvas", ret |-> TRUE,
          log |-> <<[op |-> "xosspriteop_switch_output_to_sprite", a |-> "canvas"]>>]

canvas_stop_redirection(instance, output, error) ==
    IF instance.sprite_area = NULL \/ instance.save_area = NULL
        THEN [instance |-> instance, output |-> output, ret |-> FALSE, log |-> <<>>]
    ELSE IF ~canvas_does_sprite_exist(instance.sprite_area[1])
        THEN [instance |-> instance, output |-> output, ret |-> FALSE, log |-> <<>>]
    ELSE IF StopRefusedWhileInactive(instance)
        THEN [instance |-> instance, output |-> output, ret |-> FALSE, log |-> <<>>]
    ELSE IF error
        THEN [instance |-> instance, output |-> output, ret |-> FALSE,
              log |-> <<[op |-> "xosspriteop_switch_output_to_sprite", a |-> "error"],
                        [op |-> "error_report_os_error", a |-> ""]>>]
    ELSE [instance |-> [instance EXCEPT !.redirection_active = FALSE],
          output |-> instance.saved_context, ret |-> TRUE,
          log |-> <<[op |-> "xosspriteop_switch_output_to_sprite",
                     a |-> instance.saved_context]>>]

CanvasConfigureSaveArea ==
    /\ Running
    /\ \E fault \in SaveAreaFaults :
          LET r == canvas_configure_save_area(canvas, fault)
          IN  /\ canvas' = r.instance
              /\ call' = [op |-> "canvas_configure_save_area", args |-> <<>>,
                          ret |-> BoolStr(r.ret), log |-> r.log]
    /\ UNCHANGED <<window, path, vdu, image, set, blitter, target>>

CanvasStartRedirection ==
    /\ Running
    /\ \E error \in BOOLEAN :
          LET r == canvas_start_redirection(canvas, vdu.output, error)
          IN  /\ canvas' = r.instance
              /\ vdu' = [vdu EXCEPT !.output = r.output]
              /\ call' = [op |-> "canvas_start_redirection", args |-> <<>>,
                          ret |-> BoolStr(r.ret), log |-> r.log]
    /\ UNCHANGED <<window, path, image, set, blitter, target>>

CanvasStopRedirection ==
    /\ Running
    /\ \E error \in BOOLEAN :
          LET r == canvas_stop_redirection(canvas, vdu.output, error)
          IN  /\ canvas' = r.instance
              /\ vdu' = [vdu EXCEPT !.output = r.output]
              /\ call' = [op |-> "canvas_stop_redirection", args |-> <<>>,
                          ret |-> BoolStr(r.ret), log |-> r.log]
    /\ UNCHANGED <<window, path, image, set, blitter, target>>

NextCanvas ==
    \/ CanvasConfigureArea
    \/ CanvasConfigureSaveArea
    \/ CanvasStartRedirection
    \/ CanvasStopRedirection

SpecCanvas == Init /\ [][NextCanvas]_vars

(***************************************************************************)
(* game_draw.c: the path buffer                                            *)
(*                                                                         *)
(* The buffer is held as its length in words, its validity flag and the    *)
(* elements written below the length, each <<tag, x, y>>.                  *)
(***************************************************************************)

GAME_DRAW_BUFFER_LENGTH == 256

game_draw_start_path(p) == [p EXCEPT !.length = 0, !.valid = TRUE, !.elements = <<>>]

\* A claim of space that fails without a note of the failure.
GetNewElementLeavingPathValid(p, element_size) ==
    IF p.length + element_size > GAME_DRAW_BUFFER_LENGTH
        THEN [path |-> p, element |-> FALSE]
        ELSE [path |-> [p EXCEPT !.length = p.length + element_size], element |-> TRUE]

\* A claim of space refused only once the buffer is full, whatever the size
\* of the element.
GetNewElementUnlessFull(p, element_size) ==
    IF p.length >= GAME_DRAW_BUFFER_LENGTH
        THEN [path |-> [p EXCEPT !.valid = FALSE], element |-> FALSE]
        ELSE [path |-> [p EXCEPT !.length = p.length + element_size], element |-> TRUE]

\* The result is [path, element]: element is FALSE for a NULL return.
game_draw_get_new_element(p, element_size) ==
    IF p.length + element_size > GAME_DRAW_BUFFER_LENGTH
        THEN [path |-> [p EXCEPT !.valid = FALSE], element |-> FALSE]
        ELSE [path |-> [p EXCEPT !.length = p.length + element_size], element |-> TRUE]

\* Writes the element into the space claimed for it, if there is any.
WriteElement(claimed, element) ==
    IF ~claimed.element
        THEN [path |-> claimed.path, ret |-> FALSE]
        ELSE [path |-> [claimed.path EXCEPT !.elements = Append(@, element)],
              ret |-> TRUE]

game_draw_add_move(p, x, y) ==
    WriteElement(game_draw_get_new_element(p, 3), <<"draw_MOVE_TO", x * 256, y * 256>>)

game_draw_add_line(p, x, y) ==
    WriteElement(game_draw_get_new_element(p, 3), <<"draw_LINE_TO", x * 256, y * 256>>)

game_draw_close_subpath(p) ==
    WriteElement(game_draw_get_new_element(p, 1), <<"draw_CLOSE_LINE", 0, 0>>)

game_draw_end_path(p) ==
    WriteElement(game_draw_get_new_element(p, 2), <<"draw_END_PATH", 0, 0>>)

(***************************************************************************)
(* The operating system's drawing calls, by their effect on the pixels of  *)
(* the canvas sprite.  Output sent to the screen is not held.  A pixel is  *)
(* CANVAS_PIXEL_SIZE OS units square.                                      *)
(***************************************************************************)

PixelOf(os_unit) == os_unit \div CANVAS_PIXEL_SIZE

\* Whether a pixel lies in the graphics window.
InClip(v, pixel) ==
    \/ v.clip = <<>>
    \/ /\ PixelOf(v.clip[1].left) <= pixel[1]
       /\ pixel[1] <= PixelOf(v.clip[1].right)
       /\ PixelOf(v.clip[1].bottom) <= pixel[2]
       /\ pixel[2] <= PixelOf(v.clip[1].top)

\* The image after the pixels are plotted in the colour, with output going to
\* v.output and clipped to the graphics window.
Paint(img, v, pixels, colour) ==
    IF v.output # "canvas" THEN img
    ELSE [p \in DOMAIN img |-> IF p \in pixels /\ InClip(v, p) THEN colour ELSE img[p]]

\* OS_Plot: a move leaves the pixels alone; a point plot sets the pixel at the
\* point.  The graphics cursor is not held.
xos_plot(img, v, plot_code, x, y) ==
    [vdu |-> v,
     image |-> IF plot_code = "os_MOVE_TO" THEN img
               ELSE Paint(img, v, {<<PixelOf(x), PixelOf(y)>>}, v.colour)]

\* The pixels of the disc about the centre pixel, of the radius in pixels.
Disc(centre, radius) ==
    {pixel \in ((centre[1] - radius)..(centre[1] + radius))
                   \X ((centre[2] - radius)..(centre[2] + radius)) :
        ((pixel[1] - centre[1]) * (pixel[1] - centre[1]))
            + ((pixel[2] - centre[2]) * (pixel[2] - centre[2])) <= radius * radius}

\* OS_Plot of a circle: the centre is where the OS_Plot before it left the
\* graphics cursor (cursor_x, cursor_y), and (x, y) is a point on the
\* circumference.  The filled circle plots the disc; the outline plots its
\* outermost ring of pixels.
xos_plot_circle(img, v, plot_code, cursor_x, cursor_y, x, y) ==
    LET centre == <<PixelOf(cursor_x), PixelOf(cursor_y)>>
        dx == Abs(PixelOf(x) - centre[1])
        dy == Abs(PixelOf(y) - centre[2])
        radius == CHOOSE r \in 0..(dx + dy) :
                      /\ r * r <= (dx * dx) + (dy * dy)
                      /\ (r + 1) * (r + 1) > (dx * dx) + (dy * dy)
        ring == IF radius = 0 THEN Disc(centre, 0)
                ELSE Disc(centre, radius) \ Disc(centre, radius - 1)
    IN  [vdu |-> v,
         image |-> Paint(img, v,
                         IF plot_code = "os_PLOT_CIRCLE | os_PLOT_TO"
                             THEN Disc(centre, radius) ELSE ring,
                         v.colour)]

\* VDU 24: the coordinates arrive as two bytes each, low byte first.
Coordinate16(value) == ((value + 32768) % 65536) - 32768

\* VDU 24 is ignored unless left <= right and bottom <= top.
os_VDU_SET_GRAPHICS_WINDOW(v, left, bottom, right, top) ==
    IF Coordinate16(left) <= Coordinate16(right) /\ Coordinate16(bottom) <= Coordinate16(top)
        THEN [v EXCEPT !.clip = <<[left |-> Coordinate16(left),
                                   bottom |-> Coordinate16(bottom),
                                   right |-> Coordinate16(right),
                                   top |-> Coordinate16(top)]>>]
        ELSE v

\* VDU 26
os_VDU_RESET_WINDOWS(v) == [v EXCEPT !.clip = <<>>]

\* The elements of the path that Draw reads: those before the first end marker.
RECURSIVE DrawnElements(_)
DrawnElements(elements) ==
    IF elements = <<>> \/ Head(elements)[1] = "draw_END_PATH" THEN <<>>
    ELSE <<Head(elements)>> \o DrawnElements(Tail(elements))

\* The pixels under the vertices of the path.
Vertices(elements) ==
    { <<PixelOf(e[2] \div 256), PixelOf(e[3] \div 256)>> :
          e \in { DrawnElements(elements)[i] : i \in 1..Len(DrawnElements(elements)) }
                    \ { <<"draw_CLOSE_LINE", 0, 0>> } }

Min(a, b) == IF a <= b THEN a ELSE b

\* The pixel under the point of a move or line element.
PixelUnder(element) == <<PixelOf(element[2] \div 256), PixelOf(element[3] \div 256)>>

\* The pixels of the smallest rectangle of pixels that holds the vertices.
BoundingPixels(elements) ==
    LET vs == Vertices(elements)
    IN  IF vs = {} THEN {}
        ELSE LET x0 == CHOOSE x \in {v[1] : v \in vs} : \A v \in vs : x <= v[1]
                 x1 == CHOOSE x \in {v[1] : v \in vs} : \A v \in vs : x >= v[1]
                 y0 == CHOOSE y \in {v[2] : v \in vs} : \A v \in vs : y <= v[2]
                 y1 == CHOOSE y \in {v[2] : v \in vs} : \A v \in vs : y >= v[2]
             IN  (x0..x1) \X (y0..y1)

\* Whether the pixel lies on the straight line from pixel a to pixel b.
OnSegment(pixel, a, b) ==
    /\ Min(a[1], b[1]) <= pixel[1] /\ pixel[1] <= Max(a[1], b[1])
    /\ Min(a[2], b[2]) <= pixel[2] /\ pixel[2] <= Max(a[2], b[2])
    /\ (b[1] - a[1]) * (pixel[2] - a[2]) = (b[2] - a[2]) * (pixel[1] - a[1])

\* The index of the move that opened the subpath the element at index is in,
\* or 0 if there is none.
SubpathStart(drawn, index) ==
    LET moves == {i \in 1..index : drawn[i][1] = "draw_MOVE_TO"}
    IN  IF moves = {} THEN 0 ELSE CHOOSE i \in moves : \A j \in moves : j <= i

\* Draw_Stroke: the pixels under the lines of the path and under the line that
\* closes a subpath.  The paths of the model have their edges along the rows
\* and columns of pixels, and are stroked one pixel wide.
StrokePixels(elements) ==
    LET drawn == DrawnElements(elements)
        lines == {i \in 2..Len(drawn) :
                     /\ drawn[i][1] = "draw_LINE_TO"
                     /\ drawn[i - 1][1] # "draw_CLOSE_LINE"}
        closes == {i \in 2..Len(drawn) :
                     /\ drawn[i][1] = "draw_CLOSE_LINE"
                     /\ drawn[i - 1][1] # "draw_CLOSE_LINE"
                     /\ SubpathStart(drawn, i) # 0}
    IN  Vertices(elements) \cup
        {pixel \in BoundingPixels(elements) :
            \/ \E i \in lines :
                  OnSegment(pixel, PixelUnder(drawn[i - 1]), PixelUnder(drawn[i]))
            \/ \E i \in closes :
                  OnSegment(pixel, PixelUnder(drawn[i - 1]),
                            PixelUnder(drawn[SubpathStart(drawn, i)]))}

\* Draw_Fill: the pixels the path encloses, its edges included.  The paths of
\* the model are single points, lines along a row or column, and rectangles
\* with their sides along the rows and columns.
FillPixels(elements) == BoundingPixels(elements)

(***************************************************************************)
(* game_window.c: the drawing primitives                                   *)
(*                                                                         *)
(* Each takes the window's canvas (instance), the graphics state (v), the  *)
(* pixels (img) and the path buffer (p) as they are before the call, and   *)
(* gives [ret, log, vdu, image, path] as they are after it.                *)
(***************************************************************************)

game_window_convert_x_coordinate_to_canvas(canvas_x, x) == CANVAS_PIXEL_SIZE * x

\* The flip about the top edge of the canvas, not about its top row.
ConvertYAboutTopEdge(canvas_y, y) == CANVAS_PIXEL_SIZE * (canvas_y - y)

game_window_convert_y_coordinate_to_canvas(canvas_y, y) ==
    CANVAS_PIXEL_SIZE * (canvas_y - (y + 1))

\* The primitives with their test of the session left out.
DrawingSessionAssumed(instance) == FALSE

\* canvas_is_redirection_active(instance->canvas) == FALSE, the test every
\* primitive starts with.
NoDrawingSession(instance) == canvas_is_redirection_active(instance) = FALSE

\* What a primitive gives back when it returns without touching anything.
Untouched(ret, v, img, p) ==
    [ret |-> ret, log |-> <<>>, vdu |-> v, image |-> img, path |-> p]

OsError(op) == <<[op |-> op, a |-> "error"], [op |-> "error_report_os_error", a |-> ""]>>

\* The call that selects no colour.
ColourLeftAsItWas(w, instance, v, img, p, colour, error) == Untouched(TRUE, v, img, p)

game_window_set_colour(w, instance, v, img, p, colour, error) ==
    IF NoDrawingSession(instance) THEN Untouched(FALSE, v, img, p)
    ELSE IF colour < 0 \/ colour >= w.number_of_colours THEN Untouched(TRUE, v, img, p)
    ELSE IF error
        THEN [Untouched(FALSE, v, img, p) EXCEPT !.log = OsError("xos_set_colour")]
    ELSE [Untouched(TRUE, v, img, p) EXCEPT
             !.log = <<[op |-> "xos_set_colour", c |-> colour]>>,
             !.vdu = [v EXCEPT !.colour = colour]]

\* failed is the number of the xos_writec call that reports an error, from 1,
\* or 0 if none does.
game_window_set_clip(instance, v, img, p, x0, y0, x1, y1, failed) ==
    IF NoDrawingSession(instance) THEN Untouched(FALSE, v, img, p)
    ELSE LET size == canvas_get_size(instance)
             cx0 == game_window_convert_x_coordinate_to_canvas(size.x, x0)
             cy0 == game_window_convert_y_coordinate_to_canvas(size.y, y0)
             cx1 == game_window_convert_x_coordinate_to_canvas(size.x, x1)
             cy1 == game_window_convert_y_coordinate_to_canvas(size.y, y1)
             bytes == <<24, cx0 % 256, (cx0 \div 256) % 256, cy1 % 256, (cy1 \div 256) % 256,
                        cx1 % 256, (cx1 \div 256) % 256, cy0 % 256, (cy0 \div 256) % 256>>
         IN  IF failed # 0
                 THEN [Untouched(FALSE, v, img, p) EXCEPT
                          !.log = [i \in 1..(failed - 1) |->
                                      [op |-> "xos_writec", c |-> bytes[i]]]
                                  \o OsError("xos_writec")]
             ELSE [Untouched(TRUE, v, img, p) EXCEPT
                      !.log = [i \in 1..9 |-> [op |-> "xos_writec", c |-> bytes[i]]],
                      !.vdu = os_VDU_SET_GRAPHICS_WINDOW(v, cx0, cy1, cx1, cy0)]

\* The call that writes nothing to the VDU drivers.
ClipLeftInForce(instance, v, img, p, error) == Untouched(FALSE, v, img, p)

game_window_clear_clip(instance, v, img, p, error) ==
    IF NoDrawingSession(instance) THEN Untouched(FALSE, v, img, p)
    ELSE IF error
        THEN [Untouched(FALSE, v, img, p) EXCEPT !.log = OsError("xos_writec")]
    ELSE [Untouched(TRUE, v, img, p) EXCEPT
             !.log = <<[op |-> "xos_writec", c |-> 26]>>,
             !.vdu = os_VDU_RESET_WINDOWS(v)]

game_window_plot(instance, v, img, p, plot_code, x, y, error) ==
    IF NoDrawingSession(instance) THEN Untouched(FALSE, v, img, p)
    ELSE LET size == canvas_get_size(instance)
             cx == game_window_convert_x_coordinate_to_canvas(size.x, x)
             cy == game_window_convert_y_coordinate_to_canvas(size.y, y)
             plotted == xos_plot(img, v, plot_code, cx, cy)
         IN  IF error
                 THEN [Untouched(FALSE, v, img, p) EXCEPT !.log = OsError("xos_plot")]
             ELSE [Untouched(TRUE, plotted.vdu, plotted.image, p) EXCEPT
                      !.log = <<[op |-> "xos_plot", code |-> plot_code, x |-> cx, y |-> cy]>>]

game_window_start_path(instance, v, img, p, x, y) ==
    IF NoDrawingSession(instance) THEN Untouched(FALSE, v, img, p)
    ELSE LET size == canvas_get_size(instance)
             moved == game_draw_add_move(game_draw_start_path(p),
                          game_window_convert_x_coordinate_to_canvas(size.x, x),
                          game_window_convert_y_coordinate_to_canvas(size.y, y))
         IN  Untouched(moved.ret, v, img, moved.path)

game_window_add_segment(instance, v, img, p, x, y) ==
    IF NoDrawingSession(instance) THEN Untouched(FALSE, v, img, p)
    ELSE LET size == canvas_get_size(instance)
             drawn == game_draw_add_line(p,
                          game_window_convert_x_coordinate_to_canvas(size.x, x),
                          game_window_convert_y_coordinate_to_canvas(size.y, y))
         IN  Untouched(drawn.ret, v, img, drawn.path)

\* game_draw_fill_path (op "xdraw_fill") and game_draw_plot_path (op
\* "xdraw_stroke"): Draw is called only for a valid path.  The result is
\* [log, image, error].
DrawPath(op, v, img, p, colour_vdu, error) ==
    IF ~p.valid THEN [log |-> <<>>, image |-> img, error |-> FALSE]
    ELSE IF error THEN [log |-> <<[op |-> op, a |-> "error"]>>, image |-> img,
                        error |-> TRUE]
    ELSE [log |-> <<[op |-> op, a |-> ""]>>,
          image |-> Paint(img, colour_vdu,
                          IF op = "xdraw_fill" THEN FillPixels(p.elements)
                                               ELSE StrokePixels(p.elements),
                          colour_vdu.colour),
          error |-> FALSE]

\* The faults a call of game_window_end_path can meet: an error from
\* xos_set_colour, from Draw_Fill or from Draw_Stroke.
EndPathFaults == {"none", "xos_set_colour", "xdraw_fill", "xdraw_stroke"}

game_window_end_path(w, instance, v, img, p, closed, width, outline, fill, fault) ==
    IF NoDrawingSession(instance) THEN Untouched(FALSE, v, img, p)
    ELSE LET closing == IF closed THEN game_draw_close_subpath(p)
                                  ELSE [path |-> p, ret |-> TRUE]
             ending == game_draw_end_path(closing.path)
             fill_colour == game_window_set_colour(w, instance, v, img, ending.path, fill,
                                                   fault = "xos_set_colour")
             filled == IF fill # -1
                           THEN DrawPath("xdraw_fill", v, img, ending.path,
                                         fill_colour.vdu, fault = "xdraw_fill")
                           ELSE [log |-> <<>>, image |-> img, error |-> FALSE]
             fill_vdu == IF fill # -1 THEN fill_colour.vdu ELSE v
             fill_log == IF fill # -1 THEN fill_colour.log \o filled.log ELSE <<>>
             outline_colour == game_window_set_colour(w, instance, fill_vdu, filled.image,
                                                      ending.path, outline,
                                                      fault = "xos_set_colour")
             stroked == IF outline # -1
                            THEN DrawPath("xdraw_stroke", fill_vdu, filled.image, ending.path,
                                          outline_colour.vdu, fault = "xdraw_stroke")
                            ELSE [log |-> <<>>, image |-> filled.image, error |-> FALSE]
             outline_vdu == IF outline # -1 THEN outline_colour.vdu ELSE fill_vdu
             outline_log == IF outline # -1 THEN outline_colour.log \o stroked.log ELSE <<>>
             report == <<[op |-> "error_report_os_error", a |-> ""]>>
         IN  IF closed /\ ~closing.ret THEN Untouched(FALSE, v, img, closing.path)
             ELSE IF ~ending.ret THEN Untouched(FALSE, v, img, ending.path)
             ELSE IF filled.error
                 THEN [ret |-> FALSE, log |-> fill_log \o report, vdu |-> fill_vdu,
                       image |-> filled.image, path |-> ending.path]
             ELSE IF stroked.error
                 THEN [ret |-> FALSE, log |-> fill_log \o outline_log \o report,
                       vdu |-> outline_vdu, image |-> stroked.image, path |-> ending.path]
             ELSE [ret |-> TRUE, log |-> fill_log \o outline_log, vdu |-> outline_vdu,
                   image |-> stroked.image, path |-> ending.path]

\* game_window_plot of a circle, the OS_Plot before it having been a move to
\* the game's point (from_x, from_y).
game_window_plot_circle(instance, v, img, p, plot_code, from_x, from_y, x, y, error) ==
    IF NoDrawingSession(instance) THEN Untouched(FALSE, v, img, p)
    ELSE LET size == canvas_get_size(instance)
             cx == game_window_convert_x_coordinate_to_canvas(size.x, x)
             cy == game_window_convert_y_coordinate_to_canvas(size.y, y)
             plotted == xos_plot_circle(img, v, plot_code,
                            game_window_convert_x_coordinate_to_canvas(size.x, from_x),
                            game_window_convert_y_coordinate_to_canvas(size.y, from_y),
                            cx, cy)
         IN  IF error
                 THEN [Untouched(FALSE, v, img, p) EXCEPT !.log = OsError("xos_plot")]
             ELSE [Untouched(TRUE, plotted.vdu, plotted.image, p) EXCEPT
                      !.log = <<[op |-> "xos_plot", code |-> plot_code, x |-> cx, y |-> cy]>>]

(***************************************************************************)
(* frontend.c: the drawing callbacks of the midend.  Each returns nothing; *)
(* the result here is [log, vdu, image, path] after the call, the log      *)
(* holding the calls of the operating system made by the primitives.       *)
(***************************************************************************)

\* One primitive after what was done before it.
After(before, r) ==
    [log |-> before.log \o r.log, vdu |-> r.vdu, image |-> r.image, path |-> r.path]

\* for (i = 1; i < npoints; i++) game_window_add_segment(...): coords holds
\* the points, the first at index 1.
RECURSIVE AddSegments(_, _, _, _)
AddSegments(instance, done, coords, i) ==
    IF i > Len(coords) THEN done
    ELSE AddSegments(instance,
             After(done, game_window_add_segment(instance, done.vdu, done.image, done.path,
                                                 coords[i][1], coords[i][2])),
             coords, i + 1)

riscos_draw_polygon(w, instance, v, img, p, coords, npoints, fillcolour, outlinecolour, fault) ==
    IF npoints = 0 THEN [log |-> <<>>, vdu |-> v, image |-> img, path |-> p]
    ELSE LET coloured == After([log |-> <<>>],
                               game_window_set_colour(w, instance, v, img, p,
                                                      outlinecolour, FALSE))
             started == After(coloured,
                              game_window_start_path(instance, coloured.vdu, coloured.image,
                                                     coloured.path, coords[1][1], coords[1][2]))
             joined == AddSegments(instance, started, SubSeq(coords, 1, npoints), 2)
         IN  After(joined,
                   game_window_end_path(w, instance, joined.vdu, joined.image, joined.path,
                                        TRUE, 2, outlinecolour, fillcolour, fault))

riscos_draw_circle(w, instance, v, img, p, cx, cy, radius, fillcolour, outlinecolour) ==
    LET start == [log |-> <<>>, vdu |-> v, image |-> img, path |-> p]
        fill_colour == After(start, game_window_set_colour(w, instance, v, img, p,
                                                           fillcolour, FALSE))
        fill_move == After(fill_colour,
                           game_window_plot(instance, fill_colour.vdu, fill_colour.image,
                                            fill_colour.path, "os_MOVE_TO", cx, cy, FALSE))
        filled == After(fill_move,
                        game_window_plot_circle(instance, fill_move.vdu, fill_move.image,
                                                fill_move.path, "os_PLOT_CIRCLE | os_PLOT_TO",
                                                cx, cy, cx + radius, cy, FALSE))
        inside == IF fillcolour # -1 THEN filled ELSE start
        outline_colour == After(inside,
                                game_window_set_colour(w, instance, inside.vdu, inside.image,
                                                       inside.path, outlinecolour, FALSE))
        outline_move == After(outline_colour,
                              game_window_plot(instance, outline_colour.vdu,
                                               outline_colour.image, outline_colour.path,
                                               "os_MOVE_TO", cx, cy, FALSE))
    IN  After(outline_move,
              game_window_plot_circle(instance, outline_move.vdu, outline_move.image,
                                      outline_move.path,
                                      "os_PLOT_CIRCLE_OUTLINE | os_PLOT_TO",
                                      cx, cy, cx + radius, cy, FALSE))

\* The alignment flags of the midend, each the set of the bits it has set.
ALIGN_VCENTRE == {8}

ALIGN_HLEFT == {}

ALIGN_HCENTRE == {0}

ALIGN_HRIGHT == {1}

\* align & flag, as a condition
AlignHas(align, flag) == align \cap flag # {}

\* The bounding box Font_ScanString measures for the text, in millipoints: a
\* capital stands on the baseline with its left edge at the origin, a "j"
\* reaches below the baseline and to the left of the origin.
xfont_scan_string(text) ==
    IF text = "j" THEN [x0 |-> -400, y0 |-> -800, x1 |-> 1200, y1 |-> 2400]
    ELSE [x0 |-> 0, y0 |-> 0, x1 |-> 1600, y1 |-> 1600]

\* Font_Converttopoints and Font_ConverttoOS: 400 millipoints to the OS unit.
xfont_convertto_os(millipoints) == CDiv(millipoints, 400)

\* The faults a call of game_window_write_text can meet, by the call that
\* reports the error.
WriteTextFaults ==
    {"none", "xfont_converttopoints", "xfont_find_font", "xfont_scan_string",
     "xfont_convertto_os", "xcolourtrans_set_font_colours", "xfont_paint"}

WriteTextCalls ==
    <<"xfont_converttopoints", "xfont_find_font", "xfont_scan_string",
      "xfont_convertto_os", "xcolourtrans_set_font_colours", "xfont_paint">>

\* The font calls made up to and including the one that fails, the text being
\* painted at (x, y); a font that has been found is lost again before the
\* return.
WriteTextLog(fault, x, y) ==
    LET last == IF fault = "none" THEN 6
                ELSE CHOOSE i \in 1..6 : WriteTextCalls[i] = fault
    IN  [i \in 1..last |-> [op |-> WriteTextCalls[i],
                            a |-> IF WriteTextCalls[i] = fault THEN "error" ELSE "",
                            at |-> IF i = 6 THEN <<x, y>> ELSE <<>>]]
        \o (IF last >= 3 THEN <<[op |-> "font_lose_font", a |-> ""]>> ELSE <<>>)
        \o (IF fault # "none" THEN <<[op |-> "error_report_os_error", a |-> ""]>> ELSE <<>>)

\* The x offset with the test of ALIGN_HLEFT passing whenever neither of the
\* other two horizontal flags is set.
LeftAlignedXOffset(align, bbox) ==
    IF AlignHas(align, ALIGN_HCENTRE)
        THEN -(bbox.x0 + CDiv(bbox.x1 - bbox.x0, 2))
    ELSE IF AlignHas(align, ALIGN_HRIGHT) THEN -(bbox.x0 + (bbox.x1 - bbox.x0))
    ELSE -bbox.x0

\* xoffset, in millipoints, as game_window_write_text leaves it before
\* Font_ConverttoOS: it starts at 0.
TextXOffset(align, bbox) ==
    LET width == bbox.x1 - bbox.x0
    IN  IF AlignHas(align, ALIGN_HLEFT) THEN -bbox.x0
        ELSE IF AlignHas(align, ALIGN_HCENTRE) THEN -(bbox.x0 + CDiv(width, 2))
        ELSE IF AlignHas(align, ALIGN_HRIGHT) THEN -(bbox.x0 + width)
        ELSE 0

\* yoffset, likewise.
TextYOffset(align, bbox) ==
    LET height == bbox.y1 - bbox.y0
    IN  IF AlignHas(align, ALIGN_VCENTRE) THEN -(bbox.y0 + CDiv(height, 2))
        ELSE 0

game_window_write_text(instance, v, img, p, x, y, size, align, colour, monospaced, text, fault) ==
    IF NoDrawingSession(instance) THEN Untouched(FALSE, v, img, p)
    ELSE LET canvas_size == canvas_get_size(instance)
             cx == game_window_convert_x_coordinate_to_canvas(canvas_size.x, x)
             cy == game_window_convert_y_coordinate_to_canvas(canvas_size.y, y)
             bbox == xfont_scan_string(text)
             xoffset == TextXOffset(align, bbox)
             yoffset == TextYOffset(align, bbox)
             px == cx + xfont_convertto_os(xoffset)
             py == cy + xfont_convertto_os(yoffset)
         IN  IF fault # "none"
                 THEN [Untouched(FALSE, v, img, p) EXCEPT
                          !.log = WriteTextLog(fault, px, py)]
             ELSE [Untouched(TRUE, v, img, p) EXCEPT
                      !.log = WriteTextLog(fault, px, py),
                      !.image = Paint(img, v, {<<PixelOf(px), PixelOf(py)>>}, colour)]

(***************************************************************************)
(* game_window.c: the canvas of the window                                 *)
(***************************************************************************)

\* The faults a call of game_window_create_canvas can meet, the first one
\* deciding: those of canvas_configure_area and of canvas_configure_save_area.
CreateCanvasFaults == {"none", "alloc", "save_area_alloc"}

\* The result is [window, instance, ret, log], ret being "TRUE", "FALSE" or
\* "trap".  The window has not been opened: its handle and its status bar are
\* NULL, and no extent is set.
game_window_create_canvas(w, instance, x, y, colours, number_of_colours, fault, dz) ==
    LET configured == canvas_configure_area(instance, x, y, TRUE,
                          IF fault \in ConfigureFaults THEN fault ELSE "none")
        coloured == canvas_set_game_colours(configured.instance, colours,
                                            number_of_colours, dz, os_COLOUR_BLACK)
        saved == canvas_configure_save_area(coloured.instance,
                     IF fault = "save_area_alloc" THEN "alloc" ELSE "none")
        none == [w EXCEPT !.number_of_colours = 0]
    IN  IF canvas_get_size(instance) = [x |-> x, y |-> y]
            THEN [window |-> w, instance |-> instance, ret |-> "TRUE", log |-> <<>>]
        ELSE IF ~configured.ret
            THEN [window |-> none, instance |-> configured.instance, ret |-> "FALSE",
                  log |-> configured.log]
        ELSE IF coloured.ret # "TRUE"
            THEN [window |-> none, instance |-> coloured.instance, ret |-> coloured.ret,
                  log |-> configured.log]
        ELSE IF ~saved.ret
            THEN [window |-> [w EXCEPT !.number_of_colours = number_of_colours],
                  instance |-> saved.instance, ret |-> "FALSE",
                  log |-> configured.log \o saved.log]
        ELSE [window |-> [w EXCEPT !.number_of_colours = number_of_colours,
                                   !.window_size = [x |-> 2 * x, y |-> 2 * y]],
              instance |-> saved.instance, ret |-> "TRUE",
              log |-> configured.log \o saved.log]

\* The canvas sizes <<x, y>> the window asks for: one with no pixels, one with
\* one.
WindowSizes == {<<0, 1>>, <<1, 1>>}

\* The points, colour numbers, plot codes and clip rectangles the drawing
\* calls are made with, in the coordinates of the game.
Points == {<<0, 0>>}

\* A colour the game has defined, and the first one it has not.
ColourNumbers == {1, MaxColours}

\* The <<outline, fill>> colours a path is ended with: an outline alone, and
\* an outline round a fill.
PathStyles == {<<1, -1>>, <<1, 0>>}

TextColours == {1}

PlotCodes == {"os_MOVE_TO", "os_PLOT_POINT | os_PLOT_TO"}

ClipRects == {<<0, 0, 1, 1>>}

Alignments == {ALIGN_HLEFT, ALIGN_HCENTRE \cup ALIGN_VCENTRE}

\* A path is taken as far as MaxPathWords words before it is ended.
MaxPathWords == 3

(***************************************************************************)
(* Actions: the game window                                                *)
(***************************************************************************)

GameWindowCreateCanvas ==
    /\ Running
    /\ \E size \in WindowSizes, number_of_colours \in {MaxColours},
          fault \in CreateCanvasFaults, dz \in DivideByZeroOutcomes :
          LET r == game_window_create_canvas(window, canvas, size[1], size[2],
                       SubSeq(TestGameColours, 1, number_of_colours),
                       number_of_colours, fault, dz)
          IN  /\ canvas' = r.instance
              /\ window' = r.window
              /\ image' = IF r.log = <<>> THEN image ELSE SpriteImage(r.instance)
              /\ call' = [op |-> "game_window_create_canvas",
                          args |-> [x |-> size[1], y |-> size[2],
                                    number_of_colours |-> number_of_colours],
                          ret |-> r.ret, log |-> r.log]
    /\ UNCHANGED <<path, vdu, set, blitter, target>>

GameWindowStartDraw ==
    /\ Running
    /\ \E error \in BOOLEAN :
          LET r == canvas_start_redirection(canvas, vdu.output, error)
          IN  /\ canvas' = r.instance
              /\ vdu' = [vdu EXCEPT !.output = r.output]
              /\ call' = [op |-> "game_window_start_draw", args |-> <<>>,
                          ret |-> BoolStr(r.ret), log |-> r.log]
    /\ UNCHANGED <<window, path, image, set, blitter, target>>

\* game_window_end_draw clears the clip, whatever that returns, and stops the
\* redirection.
GameWindowEndDraw ==
    /\ Running
    /\ \E clip_error \in BOOLEAN, error \in BOOLEAN :
          LET cleared == game_window_clear_clip(canvas, vdu, image, path, clip_error)
              r == canvas_stop_redirection(canvas, cleared.vdu.output, error)
          IN  /\ canvas' = r.instance
              /\ vdu' = [cleared.vdu EXCEPT !.output = r.output]
              /\ call' = [op |-> "game_window_end_draw", args |-> <<>>,
                          ret |-> BoolStr(r.ret), log |-> cleared.log \o r.log]
    /\ UNCHANGED <<window, path, image, set, blitter, target>>

\* The step of a drawing primitive that gave r.
Primitive(op, args, r) ==
    /\ vdu' = r.vdu
    /\ image' = r.image
    /\ path' = r.path
    /\ call' = [op |-> op, args |-> args, ret |-> BoolStr(r.ret), log |-> r.log]
    /\ UNCHANGED <<canvas, window, set, blitter, target>>

GameWindowSetColour ==
    /\ Running
    /\ \E colour \in ColourNumbers, error \in BOOLEAN :
          Primitive("game_window_set_colour", <<colour>>,
                    game_window_set_colour(window, canvas, vdu, image, path, colour, error))

GameWindowSetClip ==
    /\ Running
    /\ \E rect \in ClipRects, failed \in {0, 9} :
          Primitive("game_window_set_clip", rect,
                    game_window_set_clip(canvas, vdu, image, path,
                                         rect[1], rect[2], rect[3], rect[4], failed))

GameWindowClearClip ==
    /\ Running
    /\ \E error \in BOOLEAN :
          Primitive("game_window_clear_clip", <<>>,
                    game_window_clear_clip(canvas, vdu, image, path, error))

GameWindowPlot ==
    /\ Running
    /\ \E plot_code \in PlotCodes, point \in Points, error \in BOOLEAN :
          Primitive("game_window_plot", <<plot_code, point>>,
                    game_window_plot(canvas, vdu, image, path, plot_code,
                                     point[1], point[2], error))

GameWindowStartPath ==
    /\ Running
    /\ \E point \in Points :
          Primitive("game_window_start_path", point,
                    game_window_start_path(canvas, vdu, image, path, point[1], point[2]))

GameWindowAddSegment ==
    /\ Running
    /\ canvas_is_redirection_active(canvas) => path.length + 3 <= MaxPathWords
    /\ \E point \in Points :
          Primitive("game_window_add_segment", point,
                    game_window_add_segment(canvas, vdu, image, path, point[1], point[2]))

GameWindowEndPath ==
    /\ Running
    /\ canvas_is_redirection_active(canvas) => path.length <= MaxPathWords
    /\ \E closed \in BOOLEAN, style \in PathStyles, fault \in {"none", "xdraw_stroke"} :
          Primitive("game_window_end_path", <<closed, style>>,
                    game_window_end_path(window, canvas, vdu, image, path, closed, 1,
                                         style[1], style[2], fault))

GameWindowWriteText ==
    /\ Running
    /\ \E point \in Points, align \in Alignments, colour \in TextColours,
          fault \in {"none", "xfont_paint"} :
          Primitive("game_window_write_text", <<point, align, colour>>,
                    game_window_write_text(canvas, vdu, image, path, point[1], point[2],
                                           1, align, colour, FALSE, "A", fault))

Next ==
    \/ GameWindowCreateCanvas
    \/ GameWindowStartDraw
    \/ GameWindowEndDraw
    \/ GameWindowSetColour
    \/ GameWindowSetClip
    \/ GameWindowClearClip
    \/ GameWindowPlot
    \/ GameWindowStartPath
    \/ GameWindowAddSegment
    \/ GameWindowEndPath
    \/ GameWindowWriteText

Spec == Init /\ [][Next]_vars

(***************************************************************************)
(* Actions: selecting colours                                              *)
(***************************************************************************)

\* The numbers of colours the game says it has: a few, and as many as the
\* palette has entries.
ColourCounts == {MaxColours, CANVAS_MAX_PALETTE_ENTRIES}

\* The colours asked for: below the first, the first two, the one after the
\* game's last, and the last of the palette and the one after it.
ColourChoices == {-1, 0, 1, MaxColours, CANVAS_MAX_PALETTE_ENTRIES - 1,
                  CANVAS_MAX_PALETTE_ENTRIES}

GameWindowCreateCanvasCounted ==
    /\ Running
    /\ \E size \in WindowSizes, number_of_colours \in ColourCounts,
          fault \in CreateCanvasFaults, dz \in OversizeOutcomes :
          LET r == game_window_create_canvas(window, canvas, size[1], size[2],
                       ColoursFor(number_of_colours), number_of_colours, fault, dz)
          IN  /\ canvas' = r.instance
              /\ window' = r.window
              /\ image' = IF r.log = <<>> THEN image ELSE SpriteImage(r.instance)
              /\ call' = [op |-> "game_window_create_canvas",
                          args |-> [x |-> size[1], y |-> size[2],
                                    number_of_colours |-> number_of_colours],
                          ret |-> r.ret, log |-> r.log]
    /\ UNCHANGED <<path, vdu, set, blitter, target>>

GameWindowSelectColour ==
    /\ Running
    /\ \E colour \in ColourChoices, error \in BOOLEAN :
          Primitive("game_window_set_colour", <<colour>>,
                    game_window_set_colour(window, canvas, vdu, image, path, colour, error))

NextColours ==
    \/ GameWindowCreateCanvasCounted
    \/ GameWindowStartDraw
    \/ GameWindowEndDraw
    \/ GameWindowSelectColour

SpecColours == Init /\ [][NextColours]_vars

(***************************************************************************)
(* game_window.c: the timer of the window.  The events field of the window *)
(* stands for what the event library holds for it: the number of regular   *)
(* callbacks registered with game_window_timer_callback and the instance,  *)
(* and the monotonic time, in centiseconds.                                *)
(***************************************************************************)

\* The monotonic time runs from 0 to MaxTime.
MaxTime == 6

\* The library's registration of a callback, which fails when it cannot
\* allocate the record.
event_add_regular_callback(events, fault) ==
    IF fault
        THEN [events |-> events, ret |-> FALSE]
        ELSE [events |-> [events EXCEPT !.callbacks = events.callbacks + 1], ret |-> TRUE]

\* The library's removal of every callback registered with the function and
\* the data.
event_delete_callback_by_data(events) == [events EXCEPT !.callbacks = 0]

game_window_start_timer(w, fault) ==
    IF w.callback_timer_active = TRUE
        THEN [window |-> w, ret |-> TRUE, log |-> <<>>]
    ELSE LET added == event_add_regular_callback(w.events, fault)
         IN  [window |-> [w EXCEPT !.callback_timer_active = TRUE,
                                   !.last_callback = w.events.time,
                                   !.events = added.events],
              ret |-> added.ret,
              log |-> <<[op |-> "os_read_monotonic_time", c |-> w.events.time],
                        [op |-> "event_add_regular_callback", a |-> BoolStr(added.ret)]>>]

game_window_stop_timer(w) ==
    [window |-> [w EXCEPT !.events = event_delete_callback_by_data(w.events),
                          !.callback_timer_active = FALSE],
     log |-> <<[op |-> "event_delete_callback_by_data", c |-> w.events.callbacks]>>]

\* The interval handed to the frontend is in centiseconds here, before the
\* division by 100.
game_window_timer_callback(w, time) ==
    [window |-> [w EXCEPT !.last_callback = time],
     ret |-> TRUE,
     log |-> <<[op |-> "frontend_timer_callback", c |-> time - w.last_callback]>>]

(***************************************************************************)
(* Actions: the timer                                                      *)
(***************************************************************************)

GameWindowStartTimer ==
    /\ \E fault \in BOOLEAN :
          LET r == game_window_start_timer(window, fault)
          IN  /\ window' = r.window
              /\ call' = [op |-> "game_window_start_timer", args |-> <<>>,
                          ret |-> BoolStr(r.ret), log |-> r.log]
    /\ UNCHANGED <<canvas, path, vdu, image, set, blitter, target>>

GameWindowStopTimer ==
    /\ LET r == game_window_stop_timer(window)
       IN  /\ window' = r.window
           /\ call' = [op |-> "game_window_stop_timer", args |-> <<>>,
                       ret |-> "void", log |-> r.log]
    /\ UNCHANGED <<canvas, path, vdu, image, set, blitter, target>>

\* The library calls each callback it holds with the time.
GameWindowTimerCallback ==
    /\ window.events.callbacks > 0
    /\ LET r == game_window_timer_callback(window, window.events.time)
       IN  /\ window' = r.window
           /\ call' = [op |-> "game_window_timer_callback",
                       args |-> <<window.events.time>>,
                       ret |-> BoolStr(r.ret), log |-> r.log]
    /\ UNCHANGED <<canvas, path, vdu, image, set, blitter, target>>

\* A centisecond passes, which is no call of the program.
MonotonicTimePasses ==
    /\ window.events.time < MaxTime
    /\ window' = [window EXCEPT !.events.time = window.events.time + 1]
    /\ call' = [op |-> "monotonic time", args |-> <<>>, ret |-> "void", log |-> <<>>]
    /\ UNCHANGED <<canvas, path, vdu, image, set, blitter, target>>

NextTimer ==
    \/ GameWindowStartTimer
    \/ GameWindowStopTimer
    \/ GameWindowTimerCallback
    \/ MonotonicTimePasses

SpecTimer == Init /\ [][NextTimer]_vars

(***************************************************************************)
(* Actions: the path buffer of game_draw.c, called directly.  Lines are    *)
(* appended at any length of the path; the moves and the one and two word  *)
(* elements at an empty path or within MaxTailWords words of the end of    *)
(* the buffer.                                                             *)
(***************************************************************************)

MaxTailWords == 8

NearCapacity == path.length + MaxTailWords >= GAME_DRAW_BUFFER_LENGTH

\* The words each append asks game_draw_get_new_element for.
ElementSize ==
    [game_draw_add_move |-> 3, game_draw_add_line |-> 3,
     game_draw_close_subpath |-> 1, game_draw_end_path |-> 2]

PathAppend(op, args, r) ==
    /\ path' = r.path
    /\ call' = [op |-> op, args |-> args, ret |-> BoolStr(r.ret), log |-> <<>>]
    /\ UNCHANGED <<canvas, window, vdu, image, set, blitter, target>>

PathDraw(op, r) ==
    /\ image' = r.image
    /\ call' = [op |-> op, args |-> <<1>>,
                ret |-> IF r.error THEN "error" ELSE "NULL", log |-> r.log]
    /\ UNCHANGED <<canvas, window, path, vdu, set, blitter, target>>

GameDrawStartPath ==
    /\ path' = game_draw_start_path(path)
    /\ call' = [op |-> "game_draw_start_path", args |-> <<>>, ret |-> "void", log |-> <<>>]
    /\ UNCHANGED <<canvas, window, vdu, image, set, blitter, target>>

GameDrawAddMove ==
    /\ path.length = 0 \/ NearCapacity
    /\ \E point \in Points :
          PathAppend("game_draw_add_move", point,
                     game_draw_add_move(path, point[1], point[2]))

GameDrawAddLine ==
    \E point \in Points :
        PathAppend("game_draw_add_line", point,
                   game_draw_add_line(path, point[1], point[2]))

GameDrawCloseSubpath ==
    /\ NearCapacity
    /\ PathAppend("game_draw_close_subpath", <<>>, game_draw_close_subpath(path))

GameDrawEndPath ==
    /\ NearCapacity
    /\ PathAppend("game_draw_end_path", <<>>, game_draw_end_path(path))

GameDrawPlotPath ==
    \E error \in BOOLEAN :
        PathDraw("game_draw_plot_path",
                 DrawPath("xdraw_stroke", vdu, image, path, vdu, error))

GameDrawFillPath ==
    \E error \in BOOLEAN :
        PathDraw("game_draw_fill_path",
                 DrawPath("xdraw_fill", vdu, image, path, vdu, error))

NextPath ==
    \/ GameDrawStartPath
    \/ GameDrawAddMove
    \/ GameDrawAddLine
    \/ GameDrawCloseSubpath
    \/ GameDrawEndPath
    \/ GameDrawPlotPath
    \/ GameDrawFillPath

SpecPath == Init /\ [][NextPath]_vars

(***************************************************************************)
(* Actions: plotting at each row of canvases of several heights            *)
(***************************************************************************)

MaxRows == 4

\* The sizes of canvas a window is given.
TransformSizes == {<<2, 1>>} \cup {<<1, height>> : height \in 2..MaxRows}

\* The points plotted, in the coordinates of the game: those of the canvas
\* and the ones on each side of it.
TransformPoints == (-1..2) \X (-1..MaxRows)

GameWindowCreateCanvasOfSize ==
    /\ Running
    /\ \E size \in TransformSizes, dz \in DivideByZeroOutcomes :
          LET r == game_window_create_canvas(window, canvas, size[1], size[2],
                       SubSeq(TestGameColours, 1, MaxColours), MaxColours, "none", dz)
          IN  /\ canvas' = r.instance
              /\ window' = r.window
              /\ image' = IF r.log = <<>> THEN image ELSE SpriteImage(r.instance)
              /\ call' = [op |-> "game_window_create_canvas",
                          args |-> [x |-> size[1], y |-> size[2],
                                    number_of_colours |-> MaxColours],
                          ret |-> r.ret, log |-> r.log]
    /\ UNCHANGED <<path, vdu, set, blitter, target>>

GameWindowPlotAt ==
    /\ Running
    /\ \E plot_code \in PlotCodes, point \in TransformPoints, error \in BOOLEAN :
          Primitive("game_window_plot", <<plot_code, point>>,
                    game_window_plot(canvas, vdu, image, path, plot_code,
                                     point[1], point[2], error))

NextTransform ==
    \/ GameWindowCreateCanvasOfSize
    \/ GameWindowStartDraw
    \/ GameWindowSetColour
    \/ GameWindowPlotAt

SpecTransform == Init /\ [][NextTransform]_vars

(***************************************************************************)
(* Actions: clipping rectangles within the canvas, across its edges, and   *)
(* out to the ends of the range of the two bytes VDU 24 takes for each     *)
(* coordinate                                                              *)
(***************************************************************************)

\* <<x0, x1>>
ClipColumns == {<<0, 0>>, <<0, 1>>, <<-1, 2>>, <<0, 16383>>, <<0, 16384>>}

\* <<y0, y1>>
ClipRows == {<<0, 0>>, <<0, 1>>, <<-1, MaxRows>>}

GameWindowSetClipTo ==
    /\ Running
    /\ \E columns \in ClipColumns, rows \in ClipRows, failed \in {0, 9} :
          Primitive("game_window_set_clip",
                    <<columns[1], rows[1], columns[2], rows[2]>>,
                    game_window_set_clip(canvas, vdu, image, path,
                                         columns[1], rows[1], columns[2], rows[2], failed))

NextClip ==
    \/ GameWindowCreateCanvasOfSize
    \/ GameWindowStartDraw
    \/ GameWindowSetClipTo
    \/ GameWindowClearClip

SpecClip == Init /\ [][NextClip]_vars

(***************************************************************************)
(* Actions: the polygon and circle callbacks, on a canvas of three pixels  *)
(* by three in the three colours of the test game                          *)
(***************************************************************************)

\* The points of the polygons drawn: the outline of the whole canvas, and one
\* row of it.
Polygons == { << <<0, 0>>, <<2, 0>>, <<2, 2>>, <<0, 2>> >>, << <<0, 1>>, <<2, 1>> >> }

\* <<cx, cy, radius>>
Circles == { <<1, 1, 1>>, <<1, 1, 0>> }

\* The fill and outline colours: none, and two colours of the game.
CallbackColours == {-1, 1, 2}

GameWindowCreateCanvasForGame ==
    /\ Running
    /\ \E dz \in DivideByZeroOutcomes :
          LET r == game_window_create_canvas(window, canvas, 3, 3, TestGameColours,
                                             Len(TestGameColours), "none", dz)
          IN  /\ canvas' = r.instance
              /\ window' = r.window
              /\ image' = IF r.log = <<>> THEN image ELSE SpriteImage(r.instance)
              /\ call' = [op |-> "game_window_create_canvas",
                          args |-> [x |-> 3, y |-> 3,
                                    number_of_colours |-> Len(TestGameColours)],
                          ret |-> r.ret, log |-> r.log]
    /\ UNCHANGED <<path, vdu, set, blitter, target>>

Callback(op, args, r) ==
    /\ vdu' = r.vdu
    /\ image' = r.image
    /\ path' = r.path
    /\ call' = [op |-> op, args |-> args, ret |-> "void", log |-> r.log]
    /\ UNCHANGED <<canvas, window, set, blitter, target>>

RiscosDrawPolygon ==
    /\ Running
    /\ \E coords \in Polygons, fillcolour \in CallbackColours,
          outlinecolour \in CallbackColours, fault \in {"none", "xdraw_fill"} :
          Callback("riscos_draw_polygon",
                   [coords |-> coords, fillcolour |-> fillcolour,
                    outlinecolour |-> outlinecolour],
                   riscos_draw_polygon(window, canvas, vdu, image, path, coords, Len(coords),
                                       fillcolour, outlinecolour, fault))

RiscosDrawCircle ==
    /\ Running
    /\ \E circle \in Circles, fillcolour \in CallbackColours,
          outlinecolour \in CallbackColours :
          Callback("riscos_draw_circle",
                   [circle |-> circle, fillcolour |-> fillcolour,
                    outlinecolour |-> outlinecolour],
                   riscos_draw_circle(window, canvas, vdu, image, path,
                                      circle[1], circle[2], circle[3],
                                      fillcolour, outlinecolour))

NextCallbacks ==
    \/ GameWindowCreateCanvasForGame
    \/ GameWindowStartDraw
    \/ GameWindowSetColour
    \/ RiscosDrawPolygon
    \/ RiscosDrawCircle

SpecCallbacks == Init /\ [][NextCallbacks]_vars

(***************************************************************************)
(* canvas.c: capturing and plotting the sprite                             *)
(***************************************************************************)

\* The bytes OS_SpriteOp 16 needs for a 256 colour sprite grabbed with its left
\* edge at the pixel column left: whole words of the output's rows.
GetSpriteBytes(left, width, height) ==
    CANVAS_SPRITE_HEADER_SIZE + (4 * (((left % 4) + width + 3) \div 4)) * height

\* OS_SpriteOp 16: the sprite becomes the pixels of the output from (x0, y0) to
\* (x1, y1), both inclusive, bottom left first.
xosspriteop_get_sprite_user_coords(out, x0, y0, x1, y1) ==
    [p \in (0..(PixelOf(x1) - PixelOf(x0))) \X (0..(PixelOf(y1) - PixelOf(y0))) |->
        LET q == <<PixelOf(x0) + p[1], PixelOf(y0) + p[2]>>
        IN  IF q \in DOMAIN out THEN out[q] ELSE 0]

\* OS_SpriteOp 34: the sprite overwrites the output with its bottom left pixel
\* at (x, y), inside the graphics window.
xosspriteop_put_sprite_user_coords(out, v, sprite, x, y) ==
    [q \in DOMAIN out |->
        LET p == <<q[1] - PixelOf(x), q[2] - PixelOf(y)>>
        IN  IF p \in DOMAIN sprite /\ InClip(v, q) THEN sprite[p] ELSE out[q]]

\* canvas_get_sprite, on a canvas whose sprite holds the pixels sprite; error is
\* whether OS_SpriteOp 16 reports one of its own.
canvas_get_sprite(instance, sprite, out, x, y, error) ==
    IF instance.sprite_area = NULL \/ canvas_does_sprite_exist(instance.sprite_area[1]) = FALSE
        THEN [ret |-> FALSE, sprite |-> sprite, log |-> <<>>]
    ELSE LET x0 == x
             y0 == y - CANVAS_PIXEL_SIZE * (instance.size.y - 1)
             x1 == x + CANVAS_PIXEL_SIZE * (instance.size.x - 1)
             y1 == y
             area == instance.sprite_area[1]
             fits == GetSpriteBytes(PixelOf(x0), PixelOf(x1) - PixelOf(x0) + 1,
                                    PixelOf(y1) - PixelOf(y0) + 1) <= area.size - area.first
             entry == [op |-> "xosspriteop_get_sprite_user_coords",
                       x0 |-> x0, y0 |-> y0, x1 |-> x1, y1 |-> y1]
         IN  IF error \/ ~fits
                 THEN [ret |-> FALSE, sprite |-> sprite, log |-> <<entry>>]
                 ELSE [ret |-> TRUE,
                       sprite |-> xosspriteop_get_sprite_user_coords(out, x0, y0, x1, y1),
                       log |-> <<entry>>]

\* The sprite plotted with its top row at y.
PutSpriteTopAtY(instance, y) == y

\* The y coordinate canvas_put_sprite gives OS_SpriteOp 34 for a top left
\* corner at y.
PutSpriteY(instance, y) == y - CANVAS_PIXEL_SIZE * (instance.size.y - 1)

canvas_put_sprite(instance, sprite, out, v, x, y, error) ==
    IF instance.sprite_area = NULL \/ canvas_does_sprite_exist(instance.sprite_area[1]) = FALSE
        THEN [ret |-> FALSE, out |-> out, log |-> <<>>]
    ELSE LET entry == [op |-> "xosspriteop_put_sprite_user_coords",
                       x0 |-> x, y0 |-> PutSpriteY(instance, y)]
         IN  IF error
                 THEN [ret |-> FALSE, out |-> out, log |-> <<entry>>]
                 ELSE [ret |-> TRUE,
                       out |-> xosspriteop_put_sprite_user_coords(
                                   out, v, sprite, x, PutSpriteY(instance, y)),
                       log |-> <<entry>>]

\* The faults a call of canvas_prepare_redraw can meet: Wimp_ReadPixTrans or
\* ColourTrans_SelectTable returning an error.
PrepareFaults == {"none", "xwimp_read_pix_trans", "xcolourtrans_select_table_for_sprite"}

\* canvas_prepare_redraw; tables is whether factors and translation_table are
\* both given.
canvas_prepare_redraw(instance, tables, fault) ==
    IF instance.sprite_area = NULL \/ ~tables
        THEN [ret |-> FALSE, log |-> <<>>]
    ELSE IF canvas_does_sprite_exist(instance.sprite_area[1]) = FALSE
        THEN [ret |-> FALSE, log |-> <<>>]
    ELSE IF fault = "xwimp_read_pix_trans"
        THEN [ret |-> FALSE, log |-> <<[op |-> "xwimp_read_pix_trans", a |-> "error"]>>]
    ELSE IF fault = "xcolourtrans_select_table_for_sprite"
        THEN [ret |-> FALSE,
              log |-> <<[op |-> "xwimp_read_pix_trans", a |-> ""],
                        [op |-> "xcolourtrans_select_table_for_sprite", a |-> "error"]>>]
    ELSE [ret |-> TRUE,
          log |-> <<[op |-> "xwimp_read_pix_trans", a |-> ""],
                    [op |-> "xcolourtrans_select_table_for_sprite", a |-> ""]>>]

\* canvas_redraw_sprite, with factors of one to one: the sprite is plotted on
\* the output with its bottom left pixel at (x, y), and an error of
\* OS_SpriteOp 52 is dropped.
canvas_redraw_sprite(instance, sprite, out, v, x, y, error) ==
    IF instance.sprite_area # NULL /\ canvas_does_sprite_exist(instance.sprite_area[1]) = TRUE
        THEN [out |-> IF error THEN out
                      ELSE xosspriteop_put_sprite_user_coords(out, v, sprite, x, y),
              log |-> <<[op |-> "xosspriteop_put_sprite_scaled", x0 |-> x, y0 |-> y]>>]
        ELSE [out |-> out, log |-> <<>>]

\* canvas_save_sprite saving whatever it is given.
SaveSpriteOfAnyCanvas(instance, filename, error) ==
    [log |-> <<[op |-> "xosspriteop_save_sprite_file", a |-> ""]>>]

\* canvas_save_sprite; filename is whether one is given, error whether
\* OS_SpriteOp 12 reports one.
canvas_save_sprite(instance, filename, error) ==
    IF instance.sprite_area = NULL \/ ~filename
        THEN [log |-> <<>>]
    ELSE IF canvas_does_sprite_exist(instance.sprite_area[1]) = FALSE
        THEN [log |-> <<>>]
    ELSE [log |-> <<[op |-> "xosspriteop_save_sprite_file",
                     a |-> IF error THEN "error" ELSE ""]>>]

(***************************************************************************)
(* blitter.c                                                               *)
(*                                                                         *)
(* A struct blitter_block is held with the canvas it points to in place    *)
(* (NULL, or the one canvas_block) and, in image, the pixels of that       *)
(* canvas's sprite.                                                        *)
(***************************************************************************)

\* The addresses of the blocks linked from ptr on, in order.
RECURSIVE Chain(_, _)
Chain(heap, ptr) ==
    IF ptr = NULL THEN <<>>
    ELSE <<ptr[1]>> \o Chain(heap, heap[ptr[1]][1].next)

\* The blitters that belong to the set.
Members(s, heap) ==
    LET chain == Chain(heap, s.blitters) IN {chain[i] : i \in DOMAIN chain}

\* blitter_delete without the walk along the list: every blitter is taken for
\* a member.
BlitterDeleteUnchecked(s, heap, ptr) ==
    IF ptr = NULL
        THEN [set |-> s, heap |-> heap, ret |-> FALSE, log |-> <<>>]
    ELSE [set |-> s, heap |-> [heap EXCEPT ![ptr[1]] = NULL], ret |-> TRUE,
          log |-> <<[op |-> "free", c |-> ptr[1]]>>]

\* blitter_delete ending the list at the blitter before the one deleted.
BlitterDeleteCutsList(s, heap, ptr) ==
    IF ptr = NULL
        THEN [set |-> s, heap |-> heap, ret |-> FALSE, log |-> <<>>]
    ELSE IF ptr[1] \notin Members(s, heap)
        THEN [set |-> s, heap |-> heap, ret |-> FALSE,
              log |-> <<[op |-> "error_msgs_report_error", a |-> "BadBlitterSet"]>>]
    ELSE LET block == heap[ptr[1]][1]
             delinked == [address \in DOMAIN heap |->
                             IF heap[address] # NULL /\ heap[address][1].next = ptr
                                 THEN <<[heap[address][1] EXCEPT !.next = NULL]>>
                                 ELSE heap[address]]
         IN  [set |-> IF s.blitters = ptr THEN [s EXCEPT !.blitters = block.next] ELSE s,
              heap |-> [delinked EXCEPT ![ptr[1]] = NULL],
              ret |-> TRUE,
              log |-> <<[op |-> "free", c |-> ptr[1]]>>]

\* blitter_delete refusing every blitter, as it refuses NULL.
BlitterDeleteRefused(s, heap, ptr) ==
    [set |-> s, heap |-> heap, ret |-> FALSE, log |-> <<>>]

blitter_delete(s, heap, ptr) ==
    IF ptr = NULL
        THEN [set |-> s, heap |-> heap, ret |-> FALSE, log |-> <<>>]
    ELSE IF ptr[1] \notin Members(s, heap)
        THEN [set |-> s, heap |-> heap, ret |-> FALSE,
              log |-> <<[op |-> "error_msgs_report_error", a |-> "BadBlitterSet"]>>]
    ELSE LET block == heap[ptr[1]][1]
             delinked == [address \in DOMAIN heap |->
                             IF heap[address] # NULL /\ heap[address][1].next = ptr
                                 THEN <<[heap[address][1] EXCEPT !.next = block.next]>>
                                 ELSE heap[address]]
         IN  [set |-> IF s.blitters = ptr THEN [s EXCEPT !.blitters = block.next] ELSE s,
              heap |-> [delinked EXCEPT ![ptr[1]] = NULL],
              ret |-> TRUE,
              log |-> (IF block.canvas # NULL
                          THEN canvas_delete_instance(block.canvas[1]).log
                          ELSE <<>>)
                      \o <<[op |-> "free", c |-> ptr[1]]>>]

\* The faults a call of blitter_create can meet: malloc() of the block
\* returning NULL, canvas_create_instance returning NULL, and the faults of
\* canvas_configure_area.
BlitterCreateFaults == {"none", "malloc", "canvas_create_instance", "alloc"}

\* blitter_create, with address the block malloc() returns when it returns one.
\* configured is what canvas_configure_area returned, when it was called.
blitter_create(s, heap, address, width, height, fault) ==
    IF fault = "malloc"
        THEN [set |-> s, heap |-> heap, ret |-> NULL, configured |-> "not called",
              log |-> <<[op |-> "malloc", a |-> "NULL"]>>]
    ELSE LET new == <<address>>
             linked == [blitters |-> new]
             malloced == [op |-> "malloc", c |-> address]
         IN  IF fault = "canvas_create_instance"
                 THEN LET block == [canvas |-> NULL, position |-> [x |-> 0, y |-> 0],
                                    next |-> s.blitters, image |-> BlankImage(0, 0)]
                          r == blitter_delete(linked, [heap EXCEPT ![address] = <<block>>], new)
                      IN  [set |-> r.set, heap |-> r.heap, ret |-> NULL,
                           configured |-> "not called",
                           log |-> <<malloced, [op |-> "malloc", a |-> "NULL"]>> \o r.log]
             ELSE LET r == canvas_configure_area(canvas_create_instance, width, height,
                                                 FALSE, fault)
                      block == [canvas |-> <<r.instance>>, position |-> [x |-> 0, y |-> 0],
                                next |-> s.blitters, image |-> SpriteImage(r.instance)]
                  IN  [set |-> linked, heap |-> [heap EXCEPT ![address] = <<block>>],
                       ret |-> new, configured |-> BoolStr(r.ret),
                       log |-> <<malloced, [op |-> "malloc", a |-> "canvas_block"]>> \o r.log]

blitter_store_from_canvas(heap, ptr, out, x, y, error) ==
    IF ptr = NULL \/ heap[ptr[1]][1].canvas = NULL
        THEN [heap |-> heap, ret |-> FALSE, log |-> <<>>]
    ELSE LET block == heap[ptr[1]][1]
             r == canvas_get_sprite(block.canvas[1], block.image, out, x, y, error)
         IN  [heap |-> [heap EXCEPT ![ptr[1]] = <<[block EXCEPT !.position = [x |-> x, y |-> y],
                                                               !.image = r.sprite]>>],
              ret |-> r.ret, log |-> r.log]

\* The coordinate painted at, whatever is passed.
FromSavedIgnored(value, stored) == value

\* "If a coordinate is -1, the stored coordinate will be used instead."
FromSaved(value, stored) == IF value = -1 THEN stored ELSE value

blitter_paint_to_canvas(heap, ptr, out, v, x, y, error) ==
    IF ptr = NULL \/ heap[ptr[1]][1].canvas = NULL
        THEN [out |-> out, ret |-> FALSE, log |-> <<>>]
    ELSE LET block == heap[ptr[1]][1]
         IN  canvas_put_sprite(block.canvas[1], block.image, out, v,
                               FromSaved(x, block.position.x),
                               FromSaved(y, block.position.y), error)

(***************************************************************************)
(* Actions: the blitters of the game window                                *)
(***************************************************************************)

\* The widths and heights blitters are asked for.
BlitterSizes == {<<0, 1>>, <<1, MaxDim>>}

\* Top left corners at which a blitter of the largest size lies inside the
\* output, in OS units.
Corners ==
    {<<0, CANVAS_PIXEL_SIZE * (MaxDim - 1)>>,
     <<CANVAS_PIXEL_SIZE * (TargetWidth - 1), CANVAS_PIXEL_SIZE * MaxDim>>}

\* The coordinates passed to blitter_paint_to_canvas: corners, and -1 for
\* either or both.
PaintCorners ==
    Corners \cup {<<-1, -1>>, <<-1, CANVAS_PIXEL_SIZE * MaxDim>>, <<0, -1>>}

\* The blitters a caller holds a pointer to, and NULL.
Blitters == {NULL} \cup {<<address>> : address \in Members(set, blitter)}

BlitterCreate ==
    /\ \E address \in Addresses, size \in BlitterSizes, fault \in BlitterCreateFaults :
          /\ blitter[address] = NULL
          /\ LET r == blitter_create(set, blitter, address, size[1], size[2], fault)
             IN  /\ set' = r.set
                 /\ blitter' = r.heap
                 /\ call' = [op |-> "blitter_create",
                             args |-> [width |-> size[1], height |-> size[2]],
                             ret |-> IF r.ret = NULL THEN "NULL" ELSE "pointer",
                             new |-> r.ret, configured |-> r.configured, log |-> r.log]
    /\ UNCHANGED <<canvas, window, path, vdu, image, target>>

\* Every pointer a caller can pass as a blitter: NULL, the members of the set,
\* and the addresses of no member (a blitter already deleted, or one the set
\* never held).
BlitterPointers == {NULL} \cup {<<address>> : address \in Addresses}

BlitterDelete ==
    /\ \E ptr \in BlitterPointers :
          LET r == blitter_delete(set, blitter, ptr)
          IN  /\ set' = r.set
              /\ blitter' = r.heap
              /\ call' = [op |-> "blitter_delete", args |-> [blitter |-> ptr],
                          ret |-> BoolStr(r.ret), log |-> r.log]
    /\ UNCHANGED <<canvas, window, path, vdu, image, target>>

BlitterStoreFromCanvas ==
    /\ \E ptr \in Blitters, corner \in Corners, error \in BOOLEAN :
          LET r == blitter_store_from_canvas(blitter, ptr, target, corner[1], corner[2], error)
          IN  /\ blitter' = r.heap
              /\ call' = [op |-> "blitter_store_from_canvas",
                          args |-> [blitter |-> ptr, x |-> corner[1], y |-> corner[2]],
                          ret |-> BoolStr(r.ret), log |-> r.log]
    /\ UNCHANGED <<canvas, window, path, vdu, image, set, target>>

BlitterPaintToCanvas ==
    /\ \E ptr \in Blitters, corner \in PaintCorners, error \in BOOLEAN :
          LET r == blitter_paint_to_canvas(blitter, ptr, target, vdu, corner[1], corner[2], error)
          IN  /\ target' = r.out
              /\ call' = [op |-> "blitter_paint_to_canvas",
                          args |-> [blitter |-> ptr, x |-> corner[1], y |-> corner[2]],
                          ret |-> BoolStr(r.ret), log |-> r.log]
    /\ UNCHANGED <<canvas, window, path, vdu, image, set, blitter>>

NextBlit ==
    \/ BlitterCreate
    \/ BlitterDelete
    \/ BlitterStoreFromCanvas
    \/ BlitterPaintToCanvas

SpecBlit == Init /\ [][NextBlit]_vars

(***************************************************************************)
(* Actions: a set of up to three blitters                                  *)
(***************************************************************************)

\* The number of struct blitter_block the heap has room for where the order
\* of the list is looked at.
MaxMembers == 3

MemberAddresses == 1..MaxMembers

InitMembers ==
    /\ canvas = canvas_create_instance
    /\ window = [number_of_colours |-> 0, window_size |-> [x |-> 0, y |-> 0],
                 callback_timer_active |-> FALSE, last_callback |-> 0,
                 events |-> [callbacks |-> 0, time |-> 0]]
    /\ path = [length |-> 0, valid |-> TRUE, elements |-> <<>>]
    /\ vdu = [output |-> "screen", colour |-> 0, clip |-> <<>>]
    /\ image = BlankImage(0, 0)
    /\ set = blitter_create_set
    /\ blitter = [address \in MemberAddresses |-> NULL]
    /\ target = ScreenAtStart
    /\ call = [op |-> "game_window_create_instance", ret |-> "ptr", log |-> <<>>]

\* was is the list of the set, from its head, as the call finds it.
BlitterCreateMember ==
    /\ \E address \in MemberAddresses, fault \in {"none", "malloc", "canvas_create_instance"} :
          /\ blitter[address] = NULL
          /\ LET r == blitter_create(set, blitter, address, 1, 1, fault)
             IN  /\ set' = r.set
                 /\ blitter' = r.heap
                 /\ call' = [op |-> "blitter_create", args |-> [width |-> 1, height |-> 1],
                             ret |-> IF r.ret = NULL THEN "NULL" ELSE "pointer",
                             new |-> r.ret, was |-> Chain(blitter, set.blitters),
                             log |-> r.log]
    /\ UNCHANGED <<canvas, window, path, vdu, image, target>>

BlitterDeleteMember ==
    /\ \E ptr \in {NULL} \cup {<<address>> : address \in MemberAddresses} :
          LET r == blitter_delete(set, blitter, ptr)
          IN  /\ set' = r.set
              /\ blitter' = r.heap
              /\ call' = [op |-> "blitter_delete", args |-> [blitter |-> ptr],
                          ret |-> BoolStr(r.ret), was |-> Chain(blitter, set.blitters),
                          log |-> r.log]
    /\ UNCHANGED <<canvas, window, path, vdu, image, target>>

BlitterStoreMember ==
    /\ \E ptr \in Blitters \ {NULL}, corner \in Corners :
          LET r == blitter_store_from_canvas(blitter, ptr, target, corner[1], corner[2], FALSE)
          IN  /\ blitter' = r.heap
              /\ call' = [op |-> "blitter_store_from_canvas",
                          args |-> [blitter |-> ptr, x |-> corner[1], y |-> corner[2]],
                          ret |-> BoolStr(r.ret), was |-> Chain(blitter, set.blitters),
                          log |-> r.log]
    /\ UNCHANGED <<canvas, window, path, vdu, image, set, target>>

NextMembers ==
    \/ BlitterCreateMember
    \/ BlitterDeleteMember
    \/ BlitterStoreMember

SpecMembers == InitMembers /\ [][NextMembers]_vars

(***************************************************************************)
(* Actions: text written on a canvas of three pixels by three, at every    *)
(* alignment                                                               *)
(***************************************************************************)

\* ALIGN_VNORMAL | ALIGN_HLEFT is no bit at all.
TextAlignments ==
    {h \cup v : h \in {ALIGN_HLEFT, ALIGN_HCENTRE, ALIGN_HRIGHT}, v \in {{}, ALIGN_VCENTRE}}

Texts == {"A", "j"}

TextPoints == {<<1, 1>>}

GameWindowWriteTextAligned ==
    /\ Running
    /\ \E point \in TextPoints, align \in TextAlignments, text \in Texts,
          fault \in {"none", "xfont_scan_string", "xfont_paint"} :
          Primitive("game_window_write_text",
                    [point |-> point, align |-> align, text |-> text],
                    game_window_write_text(canvas, vdu, image, path, point[1], point[2],
                                           1, align, 1, FALSE, text, fault))

NextText ==
    \/ GameWindowCreateCanvasForGame
    \/ GameWindowStartDraw
    \/ GameWindowEndDraw
    \/ GameWindowWriteTextAligned

SpecText == Init /\ [][NextText]_vars

(***************************************************************************)
(* Actions: the set of blitters deleted                                    *)
(*                                                                         *)
(* blitter_delete_set is followed a step at a time: the call, each turn of *)
(* its while loop, and the free() of the set after the loop. set is NULL   *)
(* once the block is freed. While call.ret is "running" the program is in  *)
(* the loop and nothing else is called.                                    *)
(***************************************************************************)

InDeleteSet == call.op = "blitter_delete_set" /\ call.ret = "running"

\* game_window_create_instance makes the set of a new game window.
BlitterCreateSet ==
    /\ ~InDeleteSet
    /\ set = NULL
    /\ set' = blitter_create_set
    /\ call' = [op |-> "blitter_create_set", args |-> <<>>, ret |-> "pointer",
                log |-> <<[op |-> "malloc", a |-> "set"]>>]
    /\ UNCHANGED <<canvas, window, path, vdu, image, blitter, target>>

BlitterCreateInSet ==
    /\ ~InDeleteSet
    /\ set # NULL
    /\ BlitterCreate

BlitterDeleteFromSet ==
    /\ ~InDeleteSet
    /\ set # NULL
    /\ BlitterDelete

BlitterStoreInSet ==
    /\ ~InDeleteSet
    /\ set # NULL
    /\ BlitterStoreFromCanvas

\* The call of blitter_delete_set, up to the first test of the while loop; a
\* NULL set returns at once.
BlitterDeleteSet ==
    /\ ~InDeleteSet
    /\ call' = [op |-> "blitter_delete_set", args |-> [members |-> Cardinality(
                                IF set = NULL THEN {} ELSE Members(set, blitter))],
                ret |-> IF set = NULL THEN "void" ELSE "running", log |-> <<>>]
    /\ UNCHANGED <<canvas, window, path, vdu, image, set, blitter, target>>

\* One turn of the loop: blitter_delete of the head of the list, its result
\* ignored.
BlitterDeleteSetLoop ==
    /\ InDeleteSet
    /\ set.blitters # NULL
    /\ LET r == blitter_delete(set, blitter, set.blitters)
       IN  /\ set' = r.set
           /\ blitter' = r.heap
           /\ call' = [call EXCEPT !.log = @ \o r.log]
    /\ UNCHANGED <<canvas, window, path, vdu, image, target>>

\* The loop left and the set freed.
BlitterDeleteSetFree ==
    /\ InDeleteSet
    /\ set.blitters = NULL
    /\ set' = NULL
    /\ call' = [call EXCEPT !.ret = "void", !.log = @ \o <<[op |-> "free", a |-> "set"]>>]
    /\ UNCHANGED <<canvas, window, path, vdu, image, blitter, target>>

NextDeleteSet ==
    \/ BlitterCreateSet
    \/ BlitterCreateInSet
    \/ BlitterDeleteFromSet
    \/ BlitterStoreInSet
    \/ BlitterDeleteSet
    \/ BlitterDeleteSetLoop
    \/ BlitterDeleteSetFree

\* A call that has begun runs on: the loop takes its next turn, and the set is
\* freed when the loop is left.
SpecDeleteSet ==
    /\ Init
    /\ [][NextDeleteSet]_vars
    /\ WF_vars(BlitterDeleteSetLoop)
    /\ WF_vars(BlitterDeleteSetFree)

(***************************************************************************)
(* Actions: the operations on the image of the game window's canvas, with  *)
(* and without an image                                                    *)
(***************************************************************************)

\* The sizes the canvas is configured to: one that OS_SpriteOp 15 has no room
\* for, and two that fit the output.
ImageSizes == {<<0, 0>>, <<1, 2>>, <<2, 1>>}

CanvasConfigureAreaForImage ==
    /\ \E size \in ImageSizes, fault \in ConfigureFaults :
          LET r == canvas_configure_area(canvas, size[1], size[2], FALSE, fault)
          IN  /\ canvas' = r.instance
              /\ image' = SpriteImage(r.instance)
              /\ call' = [op |-> "canvas_configure_area",
                          args |-> [width |-> size[1], height |-> size[2],
                                    include_palette |-> FALSE],
                          ret |-> BoolStr(r.ret), log |-> r.log]
    /\ UNCHANGED <<window, path, vdu, set, blitter, target>>

CanvasPrepareRedraw ==
    /\ \E tables \in BOOLEAN, fault \in PrepareFaults :
          LET r == canvas_prepare_redraw(canvas, tables, fault)
          IN  call' = [op |-> "canvas_prepare_redraw", args |-> [tables |-> tables],
                       ret |-> BoolStr(r.ret), log |-> r.log]
    /\ UNCHANGED <<canvas, window, path, vdu, image, set, blitter, target>>

CanvasRedrawSprite ==
    /\ \E corner \in Corners, error \in BOOLEAN :
          LET r == canvas_redraw_sprite(canvas, image, target, vdu, corner[1], corner[2], error)
          IN  /\ target' = r.out
              /\ call' = [op |-> "canvas_redraw_sprite",
                          args |-> [x |-> corner[1], y |-> corner[2]],
                          ret |-> "void", log |-> r.log]
    /\ UNCHANGED <<canvas, window, path, vdu, image, set, blitter>>

CanvasGetSprite ==
    /\ \E corner \in Corners, error \in BOOLEAN :
          LET r == canvas_get_sprite(canvas, image, target, corner[1], corner[2], error)
          IN  /\ image' = r.sprite
              /\ call' = [op |-> "canvas_get_sprite",
                          args |-> [x |-> corner[1], y |-> corner[2]],
                          ret |-> BoolStr(r.ret), log |-> r.log]
    /\ UNCHANGED <<canvas, window, path, vdu, set, blitter, target>>

CanvasPutSprite ==
    /\ \E corner \in Corners, error \in BOOLEAN :
          LET r == canvas_put_sprite(canvas, image, target, vdu, corner[1], corner[2], error)
          IN  /\ target' = r.out
              /\ call' = [op |-> "canvas_put_sprite",
                          args |-> [x |-> corner[1], y |-> corner[2]],
                          ret |-> BoolStr(r.ret), log |-> r.log]
    /\ UNCHANGED <<canvas, window, path, vdu, image, set, blitter>>

CanvasSaveSprite ==
    /\ \E filename \in BOOLEAN, error \in BOOLEAN :
          LET r == canvas_save_sprite(canvas, filename, error)
          IN  call' = [op |-> "canvas_save_sprite", args |-> [filename |-> filename],
                       ret |-> "void", log |-> r.log]
    /\ UNCHANGED <<canvas, window, path, vdu, image, set, blitter, target>>

NextImage ==
    \/ CanvasConfigureAreaForImage
    \/ CanvasConfigureSaveArea
    \/ CanvasPrepareRedraw
    \/ CanvasRedrawSprite
    \/ CanvasGetSprite
    \/ CanvasPutSprite
    \/ CanvasSaveSprite

SpecImage == Init /\ [][NextImage]_vars

(***************************************************************************)
(* Actions: canvases of every width                                        *)
(***************************************************************************)

\* Widths too large for malloc() to find room for the rows.
LargeWidths == {32767, 65536, 16777213}

\* The widths, heights and faults canvas_configure_area is called with: every
\* width up to MaxWidth, and the large widths with malloc() returning NULL.
StrideInputs ==
    ((1..MaxWidth) \X (1..MaxDim) \X {"none"})
        \cup (LargeWidths \X (1..MaxDim) \X {"alloc"})

CanvasConfigureAreaOfWidth ==
    /\ \E input \in StrideInputs, include_palette \in BOOLEAN :
          LET r == canvas_configure_area(canvas, input[1], input[2], include_palette, input[3])
          IN  /\ canvas' = r.instance
              /\ image' = SpriteImage(r.instance)
              /\ call' = [op |-> "canvas_configure_area",
                          args |-> [width |-> input[1], height |-> input[2],
                                    include_palette |-> include_palette],
                          ret |-> BoolStr(r.ret), log |-> r.log]
    /\ UNCHANGED <<window, path, vdu, set, blitter, target>>

NextStride == CanvasConfigureAreaOfWidth

SpecStride == Init /\ [][NextStride]_vars

(***************************************************************************)
(* Canvas configuration and redirection: properties                        *)
(***************************************************************************)

\* Whether the log of the last call holds a call of the operation op.
Issued(op) == \E i \in 1..Len(call.log) : call.log[i].op = op

\* Whether the canvas holds a sprite.
HasImage(instance) ==
    /\ instance.sprite_area # NULL
    /\ canvas_does_sprite_exist(instance.sprite_area[1])

\* C3: canvas_start_redirection on a canvas whose redirection is already
\* active returns FALSE, issues no output switch, and leaves the canvas active
\* with its saved context (and the VDU output) unchanged.
C3_StartWhileActiveRefused ==
    [][(call'.op = "canvas_start_redirection" /\ canvas.redirection_active = TRUE)
        => /\ call'.ret = "FALSE"
           /\ \A i \in 1..Len(call'.log) :
                  call'.log[i].op # "xosspriteop_switch_output_to_sprite"
           /\ vdu'.output = vdu.output
           /\ canvas'.redirection_active = TRUE
           /\ canvas'.saved_context = canvas.saved_context]_vars

\* C3 happens: a start was refused on a canvas with a sprite and a save area,
\* whose redirection was, and still is, active.
C3_StartedTwice ==
    /\ call.op = "canvas_start_redirection"
    /\ call.ret = "FALSE"
    /\ ~Issued("xosspriteop_switch_output_to_sprite")
    /\ HasImage(canvas)
    /\ canvas_is_redirection_active(canvas)
    /\ vdu.output = "canvas"

\* C4: canvas_stop_redirection on a canvas whose redirection is not active
\* returns FALSE, issues no output switch, and leaves the canvas inactive (and
\* the VDU output where it was).
C4_StopWhileInactiveRefused ==
    [][(call'.op = "canvas_stop_redirection" /\ canvas.redirection_active = FALSE)
        => /\ call'.ret = "FALSE"
           /\ \A i \in 1..Len(call'.log) :
                  call'.log[i].op # "xosspriteop_switch_output_to_sprite"
           /\ vdu'.output = vdu.output
           /\ canvas'.redirection_active = FALSE]_vars

\* C4 happens: a stop was refused on a canvas with a sprite and a save area,
\* whose redirection was not, and is not, active.
C4_StoppedWhileInactive ==
    /\ call.op = "canvas_stop_redirection"
    /\ call.ret = "FALSE"
    /\ ~Issued("xosspriteop_switch_output_to_sprite")
    /\ HasImage(canvas)
    /\ canvas.save_area # NULL
    /\ canvas.redirection_active = FALSE

\* C9: canvas_configure_area with width <= 0 or height <= 0 returns FALSE, and
\* after any canvas_configure_area that returns FALSE the canvas has no image
\* and canvas_get_size reports (0, 0).  (The property as claimed; a failed
\* palette insertion refutes it.)
C9_FailedConfigureLeavesNothing ==
    call.op = "canvas_configure_area"
    => /\ (call.args.width <= 0 \/ call.args.height <= 0) => call.ret = "FALSE"
       /\ call.ret = "FALSE"
            => /\ ~HasImage(canvas)
               /\ canvas_get_size(canvas) = [x |-> 0, y |-> 0]

\* The allocations in the log of the last call.
Allocations ==
    SelectSeq(call.log, LAMBDA e : e.op \in {"malloc", "realloc"})

\* C10 (as amended): for width > 0 and height > 0, canvas_configure_area makes
\* one allocation, of exactly 16 + 44 + 2048 (only if include_palette)
\* + height * stride bytes, where stride is (width + 6) rounded down to a
\* multiple of 4.
C10_AreaSizeStrideRoundedDown ==
    (/\ call.op = "canvas_configure_area"
     /\ call.args.width > 0
     /\ call.args.height > 0)
    => /\ Len(Allocations) = 1
       /\ Allocations[1].size =
              16 + 44 + (IF call.args.include_palette THEN 2048 ELSE 0)
                 + call.args.height * (4 * ((call.args.width + 6) \div 4))

\* C10 happens: a canvas one pixel wide was configured with a palette, and
\* (1 + 6) is not a multiple of 4.
C10_OddWidthConfigured ==
    /\ call.op = "canvas_configure_area"
    /\ call.ret = "TRUE"
    /\ call.args.width = 1
    /\ call.args.height = MaxDim
    /\ call.args.include_palette
    /\ Len(Allocations) = 1

\* C10 as claimed: the stride is (width + 6) rounded up to a multiple of 4.
C10_AreaSizeStrideRoundedUp ==
    (/\ call.op = "canvas_configure_area"
     /\ call.args.width > 0
     /\ call.args.height > 0)
    => /\ Len(Allocations) = 1
       /\ Allocations[1].size =
              16 + 44 + (IF call.args.include_palette THEN 2048 ELSE 0)
                 + call.args.height * (4 * ((call.args.width + 6 + 3) \div 4))

\* The bytes canvas_configure_area asked for beyond the headers and the
\* palette, in the last call.
RowBytes ==
    Allocations[1].size - CANVAS_AREA_HEADER_SIZE - CANVAS_SPRITE_HEADER_SIZE
        - (IF call.args.include_palette THEN CANVAS_PALETTE_SIZE ELSE 0)

\* C11: for every width w > 0 the rows canvas_configure_area asks for are
\* height times a stride that is (w + 6) rounded down to a multiple of 4, and
\* the stride satisfies stride >= w, stride % 4 = 0 and 3 <= stride - w <= 6.
C11_StrideOfEveryWidth ==
    (/\ call.op = "canvas_configure_area"
     /\ call.args.width > 0
     /\ call.args.height > 0)
    => LET w == call.args.width
           stride == RowBytes \div call.args.height
       IN  /\ RowBytes = stride * call.args.height
           /\ stride = (w + 6) - ((w + 6) % 4)
           /\ stride >= w
           /\ stride % 4 = 0
           /\ 3 <= stride - w
           /\ stride - w <= 6

\* C11 happens: a canvas of the largest width and more than one row has
\* been configured, with (width + 6) not a multiple of 4.
C11_WidestConfigured ==
    /\ call.op = "canvas_configure_area"
    /\ call.ret = "TRUE"
    /\ call.args.width = MaxWidth - 1
    /\ call.args.height = MaxDim
    /\ canvas.size.x = MaxWidth - 1
    /\ (call.args.width + 6) % 4 # 0

\* C12: after every canvas_configure_area call that leaves the canvas with a
\* sprite, the sprite has a palette if and only if the most recent successful
\* canvas_configure_area asked for one: a call that returns TRUE leaves a
\* palette exactly when include_palette is TRUE, and a call that returns FALSE
\* leaves what the earlier calls established.
C12_PaletteIffAskedFor ==
    [][call'.op = "canvas_configure_area"
        => (HasImage(canvas')
               => (HasPalette(canvas')
                      <=> IF call'.ret = "TRUE" THEN call'.args.include_palette
                          ELSE HasPalette(canvas)))]_vars

(***************************************************************************)
(* Drawing primitives: properties                                          *)
(***************************************************************************)

PrimitiveOps ==
    {"game_window_set_colour", "game_window_plot", "game_window_set_clip",
     "game_window_clear_clip", "game_window_start_path", "game_window_add_segment",
     "game_window_end_path", "game_window_write_text"}

\* C5: whenever the canvas of the window has no active redirection session,
\* each of the eight drawing primitives returns FALSE, makes no call of the
\* operating system, and leaves the pixels, the path buffer and the graphics
\* state as they were.
C5_PrimitivesRefusedWithoutSession ==
    [][(call'.op \in PrimitiveOps /\ ~canvas_is_redirection_active(canvas))
        => /\ call'.ret = "FALSE"
           /\ call'.log = <<>>
           /\ image' = image
           /\ path' = path
           /\ vdu' = vdu]_vars

\* C5 happens: after a session that drew on the canvas and left elements in
\* the path buffer, a primitive has been called with no session active.
C5_DrawnOutsideSession ==
    /\ call.op \in PrimitiveOps
    /\ call.ret = "FALSE"
    /\ call.log = <<>>
    /\ HasImage(canvas)
    /\ canvas.save_area # NULL
    /\ ~canvas_is_redirection_active(canvas)
    /\ path.length > 0
    /\ \E p \in DOMAIN image : image[p] # 0

(***************************************************************************)
(* Blitters: properties                                                    *)
(***************************************************************************)

\* The block a blitter pointer of the last call's arguments points to.
BlockOf(heap, ptr) == heap[ptr[1]][1]

\* Whether the pointer is to a blitter whose canvas holds a sprite.
Paintable(heap, ptr) ==
    /\ ptr # NULL
    /\ BlockOf(heap, ptr).canvas # NULL
    /\ HasImage(BlockOf(heap, ptr).canvas[1])

\* C6: when blitter_store_from_canvas(x, y) has captured (returned TRUE) and
\* the next call is blitter_paint_to_canvas on the same blitter with -1 for both
\* coordinates, every pixel of the output is after the paint what it was at the
\* capture; the one OS_SpriteOp 34 call plots at the bottom left corner that
\* the OS_SpriteOp 16 call read from, and the sprite plotted has the width and
\* height of the rectangle read.
C6_StoreThenPaintFromSaved ==
    [][(/\ call.op = "blitter_store_from_canvas"
        /\ call.ret = "TRUE"
        /\ call'.op = "blitter_paint_to_canvas"
        /\ call'.args.blitter = call.args.blitter
        /\ call'.args.x = -1
        /\ call'.args.y = -1)
        => /\ target' = target
           /\ Len(call'.log) = 1
           /\ call'.log[1].op = "xosspriteop_put_sprite_user_coords"
           /\ call'.log[1].x0 = call.log[1].x0
           /\ call'.log[1].y0 = call.log[1].y0
           /\ DOMAIN BlockOf(blitter, call.args.blitter).image
                 = (0..(PixelOf(call.log[1].x1) - PixelOf(call.log[1].x0)))
                      \X (0..(PixelOf(call.log[1].y1) - PixelOf(call.log[1].y0)))]_vars

\* C6 happens: a blitter two or more pixels high, holding pixels of two
\* colours captured away from the origin, has been painted with -1 for both
\* coordinates, and the output shows under it the pixels it holds.
C6_PaintedWhereStored ==
    /\ call.op = "blitter_paint_to_canvas"
    /\ call.ret = "TRUE"
    /\ call.args.x = -1
    /\ call.args.y = -1
    /\ LET block == BlockOf(blitter, call.args.blitter)
       IN  /\ block.canvas[1].size.y >= 2
           /\ block.position.y > 0
           /\ \E p, q \in DOMAIN block.image : block.image[p] # block.image[q]
           /\ block.image = xosspriteop_get_sprite_user_coords(
                                target, call.log[1].x0, call.log[1].y0,
                                call.log[1].x0 + CANVAS_PIXEL_SIZE * (block.canvas[1].size.x - 1),
                                block.position.y)

\* C7: blitter_paint_to_canvas on a blitter that holds a sprite plots it with
\* its top left corner at (x, y), where a coordinate passed as -1 is taken,
\* each on its own, from the position the blitter holds, and changes no
\* blitter; blitter_store_from_canvas sets the position its blitter holds to
\* its arguments; and no other call changes the position of a blitter that
\* stays in the heap.  So the position used for -1 is that of the latest store,
\* however many paints have come since.
C7_PaintSubstitutesStoredPosition ==
    [][/\ (call'.op = "blitter_paint_to_canvas" /\ Paintable(blitter, call'.args.blitter))
           => LET block == BlockOf(blitter, call'.args.blitter)
                  x == IF call'.args.x = -1 THEN block.position.x ELSE call'.args.x
                  y == IF call'.args.y = -1 THEN block.position.y ELSE call'.args.y
                  bottom == y - CANVAS_PIXEL_SIZE * (block.canvas[1].size.y - 1)
              IN  /\ call'.log = <<[op |-> "xosspriteop_put_sprite_user_coords",
                                    x0 |-> x, y0 |-> bottom]>>
                  /\ blitter' = blitter
                  /\ call'.ret = "TRUE"
                        => target' = xosspriteop_put_sprite_user_coords(
                                         target, vdu, block.image, x, bottom)
                  /\ call'.ret = "FALSE" => target' = target
       /\ (call'.op = "blitter_store_from_canvas" /\ call'.args.blitter # NULL)
           => BlockOf(blitter', call'.args.blitter).position
                 = [x |-> call'.args.x, y |-> call'.args.y]
       /\ \A address \in Addresses :
             (/\ blitter[address] # NULL
              /\ blitter'[address] # NULL
              /\ blitter'[address][1].position # blitter[address][1].position)
                 => /\ call'.op = "blitter_store_from_canvas"
                    /\ call'.args.blitter = <<address>>]_vars

\* C7 happens: a paint with -1 for both coordinates has plotted a blitter at
\* the corner it was stored from, while the output shows the pixels it holds
\* at another corner too, where they were not at the start.
C7_PaintedFromSavedAfterExplicit ==
    /\ call.op = "blitter_paint_to_canvas"
    /\ call.ret = "TRUE"
    /\ call.args.x = -1
    /\ call.args.y = -1
    /\ LET block == BlockOf(blitter, call.args.blitter)
           width == CANVAS_PIXEL_SIZE * (block.canvas[1].size.x - 1)
           height == CANVAS_PIXEL_SIZE * (block.canvas[1].size.y - 1)
       IN  /\ <<block.position.x, block.position.y>> \in Corners
           /\ call.log[1].x0 = block.position.x
           /\ call.log[1].y0 = block.position.y - height
           /\ \E corner \in Corners :
                 /\ corner # <<block.position.x, block.position.y>>
                 /\ block.image = xosspriteop_get_sprite_user_coords(
                                      target, corner[1], corner[2] - height,
                                      corner[1] + width, corner[2])
                 /\ block.image # xosspriteop_get_sprite_user_coords(
                                      ScreenAtStart, corner[1], corner[2] - height,
                                      corner[1] + width, corner[2])

\* C8: a blitter_create whose canvas_configure_area call returns FALSE returns
\* NULL and leaves the set with the members it had.
C8_FailedConfigureUndoesCreate ==
    [][(call'.op = "blitter_create" /\ call'.configured = "FALSE")
        => /\ call'.ret = "NULL"
           /\ Members(set', blitter') = Members(set, blitter)]_vars

(***************************************************************************)
(* Palette synthesis: properties                                           *)
(***************************************************************************)

\* The quantised os_colour of a game colour.
Quantised(colour) ==
    canvas_make_os_colour(FloatToByte(colour[1]), FloatToByte(colour[2]),
                          FloatToByte(colour[3]))

\* C1: on a canvas with a palette, canvas_set_game_colours with 0 <= n < 256
\* colours whose channels lie in [0, 1] completes and returns TRUE, leaving all
\* 256 entries defined and entries [0, n) equal to the quantised game colours
\* in order.  (The property as claimed; the division by zero in the gradient
\* search refutes it.)
C1_CompletesWithGameColoursFirst ==
    (/\ call.op = "canvas_set_game_colours"
     /\ HasPalette(canvas)
     /\ call.args.number_of_colours >= 0
     /\ call.args.number_of_colours < CANVAS_MAX_PALETTE_ENTRIES)
    => /\ call.ret = "TRUE"
       /\ PaletteProgrammed(canvas)
       /\ \A i \in 1..call.args.number_of_colours :
              PaletteAt(canvas.sprite_area[1].palette, i) = Quantised(call.args.colours[i])

\* C2: on a canvas with a palette, canvas_set_game_colours returns FALSE
\* whenever the number of colours is negative or is 256 or more.  (The property
\* as claimed; the fill that follows the rejected colours refutes it.)
C2_RejectsBadColourCount ==
    (/\ call.op = "canvas_set_game_colours"
     /\ HasPalette(canvas)
     /\ (call.args.number_of_colours < 0
            \/ call.args.number_of_colours >= CANVAS_MAX_PALETTE_ENTRIES))
    => call.ret = "FALSE"

\* The palette of the canvas, and the number of its entries written before the
\* rest were filled with white.
Palette == canvas.sprite_area[1].palette

Placed == Len(Palette.entries)

\* The number of entries the game colours of the last call took.
BaseColours ==
    IF call.args.number_of_colours >= 0
            /\ call.args.number_of_colours < CANVAS_MAX_PALETTE_ENTRIES
        THEN call.args.number_of_colours
        ELSE 0

\* The red, green and blue of an os_colour.
Channels(colour) ==
    <<canvas_get_os_colour_red(colour), canvas_get_os_colour_green(colour),
      canvas_get_os_colour_blue(colour)>>

\* Whether the existing colour is within 5% of the candidate on red, green and
\* blue, relative to the candidate's channels: 100 * |delta| / channel < 5.
\* The quotient has no value for a channel of 0.
Within5Percent(candidate, existing) ==
    \A k \in 1..3 :
        /\ Channels(candidate)[k] # 0
        /\ 100 * Abs(Channels(candidate)[k] - Channels(existing)[k])
               < 5 * Channels(candidate)[k]

\* C13: after a palette synthesis that completed, no gradient entry (an entry
\* placed after the game colours and before the white fill) is within 5% on
\* all three channels of an entry at a lower index: a candidate that was
\* within the tolerance of an entry already placed was not appended.
C13_NoGradientEntryNearEarlierEntry ==
    (/\ call.op = "canvas_set_game_colours"
     /\ call.ret # "trap"
     /\ HasPalette(canvas))
    => \A i \in (BaseColours + 1)..Placed : \A j \in 1..(i - 1) :
           ~Within5Percent(PaletteAt(Palette, i), PaletteAt(Palette, j))

\* C13 happens: a synthesis from two game colours with no zero channel has
\* completed, having appended some gradient colours and having left out
\* others of the fifteen candidates.
C13_SomeAppendedSomeSkipped ==
    /\ call.op = "canvas_set_game_colours"
    /\ call.ret = "TRUE"
    /\ HasPalette(canvas)
    /\ call.args.number_of_colours = 2
    /\ \A i \in 1..2 : \A k \in 1..3 : Channels(PaletteAt(Palette, i))[k] # 0
    /\ Placed > 2 + 10
    /\ Placed < 2 + 10 + CANVAS_GRADIENT_LENGTH

\* The colour canvas_set_pallete_build_gradient works out for a step.
GradientCandidate(start, end, step, points) ==
    canvas_make_os_colour(
        GradientChannel(canvas_get_os_colour_red(start), canvas_get_os_colour_red(end),
                        step, points),
        GradientChannel(canvas_get_os_colour_green(start), canvas_get_os_colour_green(end),
                        step, points),
        GradientChannel(canvas_get_os_colour_blue(start), canvas_get_os_colour_blue(end),
                        step, points))

\* The gradients the last canvas_set_game_colours call asked for: black to
\* white in 10 points, then each pair of game colours in 5.
Gradients ==
    {[start |-> os_COLOUR_BLACK, end |-> os_COLOUR_WHITE, points |-> 10]}
    \cup {[start |-> Quantised(call.args.colours[pair[1]]),
           end |-> Quantised(call.args.colours[pair[2]]),
           points |-> CANVAS_GRADIENT_LENGTH] :
              pair \in {p \in (1..BaseColours) \X (1..BaseColours) : p[1] < p[2]}}

\* C14: of the candidates of a gradient from A to B in k points, the colours
\* A + (B - A) * step / k for step = 1..k, none is the colour A or the colour B.
\* (The property as claimed; the candidate of step k, which is B, refutes it.)
C14_EndpointsNeverCandidates ==
    (/\ call.op = "canvas_set_game_colours"
     /\ HasPalette(canvas)
     /\ BaseColours <= MaxColours)
    => \A gradient \in Gradients : \A step \in 1..gradient.points :
           GradientCandidate(gradient.start, gradient.end, step, gradient.points)
               \notin {gradient.start, gradient.end}

\* Whether an entry placed by the synthesis is the candidate or is within 5%
\* of it.
PlacedOrNear(candidate) ==
    \E j \in 1..Placed :
        \/ PaletteAt(Palette, j) = candidate
        \/ Within5Percent(candidate, PaletteAt(Palette, j))

\* The candidates of a gradient that have no zero channel.
Candidates(gradient) ==
    {candidate \in {GradientCandidate(gradient.start, gradient.end, step, gradient.points) :
                        step \in 1..gradient.points} :
        \A k \in 1..3 : Channels(candidate)[k] # 0}

\* The gradients of the last call that the property looks at: black to white,
\* and the pairs when the game colours are few.
GradientsLookedAt ==
    IF BaseColours <= MaxColours THEN Gradients
    ELSE {[start |-> os_COLOUR_BLACK, end |-> os_COLOUR_WHITE, points |-> 10]}

\* C15: after a palette synthesis that completed the palette holds no more
\* than 256 entries; a gradient of k points that starts with 256 - k entries
\* or more placed appends nothing, whether or not its colours would fit; and
\* a gradient that starts with fewer has each of its candidates appended
\* unless an entry placed earlier is within 5% of it.
C15_GradientSkippedWholeNearCapacity ==
    (/\ call.op = "canvas_set_game_colours"
     /\ call.ret # "trap"
     /\ HasPalette(canvas))
    => /\ Placed <= CANVAS_MAX_PALETTE_ENTRIES
       /\ BaseColours + 10 >= CANVAS_MAX_PALETTE_ENTRIES => Placed = BaseColours
       /\ \A gradient \in GradientsLookedAt :
              Placed + gradient.points < CANVAS_MAX_PALETTE_ENTRIES
                  => \A candidate \in Candidates(gradient) : PlacedOrNear(candidate)

\* C15 happens: a synthesis from 255 game colours has completed, with every
\* gradient skipped and entry 255 left for the white fill.
C15_FullOfGameColours ==
    /\ call.op = "canvas_set_game_colours"
    /\ call.ret = "TRUE"
    /\ HasPalette(canvas)
    /\ call.args.number_of_colours = CANVAS_MAX_PALETTE_ENTRIES - 1
    /\ Placed = CANVAS_MAX_PALETTE_ENTRIES - 1
    /\ PaletteAt(Palette, CANVAS_MAX_PALETTE_ENTRIES) = os_COLOUR_WHITE

\* C15 as claimed: a candidate that is no duplicate is left out only when
\* appending it would take the palette beyond 256 entries.
C15_SkippedOnlyWhenFull ==
    (/\ call.op = "canvas_set_game_colours"
     /\ call.ret # "trap"
     /\ HasPalette(canvas))
    => \A gradient \in GradientsLookedAt : \A candidate \in Candidates(gradient) :
           ~PlacedOrNear(candidate) => Placed + 1 > CANVAS_MAX_PALETTE_ENTRIES

\* The channels of the game colours of the last call with the channels stored
\* for them, as pairs <<c, stored>> with c in units of 1 / FloatOne.
StoredChannels ==
    {<<call.args.colours[i][k], Channels(PaletteAt(Palette, i))[k]>> :
        i \in 1..BaseColours, k \in 1..3}

\* C16: each channel c of a game colour is stored in the palette as c * 255
\* with its fraction dropped, the largest integer not above c * 255; 0.5 is
\* stored as 127.
C16_ChannelsTruncated ==
    (/\ call.op = "canvas_set_game_colours"
     /\ call.ret # "trap"
     /\ HasPalette(canvas))
    => \A pair \in StoredChannels :
           /\ pair[2] * FloatOne <= pair[1] * 255
           /\ pair[1] * 255 < (pair[2] + 1) * FloatOne

\* C16 happens: a game colour with the channels 1, 0.5 and 0.25 has been
\* stored as 255, 127 and 63.
C16_HalfStoredAs127 ==
    /\ call.op = "canvas_set_game_colours"
    /\ call.ret = "TRUE"
    /\ HasPalette(canvas)
    /\ \E i \in 1..BaseColours :
          /\ call.args.colours[i] = <<FloatOne, FloatOne \div 2, FloatOne \div 4>>
          /\ Channels(PaletteAt(Palette, i)) = <<255, 127, 63>>

\* C16 as claimed: each channel c is stored as round(c * 255), the nearest
\* integer, 0.5 being stored as 128.
C16_ChannelsRounded ==
    (/\ call.op = "canvas_set_game_colours"
     /\ call.ret # "trap"
     /\ HasPalette(canvas))
    => \A pair \in StoredChannels :
           /\ 2 * pair[2] * FloatOne <= (2 * pair[1] * 255) + FloatOne
           /\ (2 * pair[1] * 255) + FloatOne < 2 * (pair[2] + 1) * FloatOne

\* The colours of the black to white gradient.
RampColours ==
    {GradientCandidate(os_COLOUR_BLACK, os_COLOUR_WHITE, step, 10) : step \in 1..10}

\* C17: a synthesis from two game colours that are the same on every channel
\* completes, and the gradient between the two appends nothing: every entry
\* placed after the two is a colour of the black to white gradient, as it is
\* for the colour on its own.  (The property as claimed; a colour with a zero
\* channel refutes it.)
C17_NoGradientBetweenEqualColours ==
    (/\ call.op = "canvas_set_game_colours"
     /\ HasPalette(canvas)
     /\ call.args.number_of_colours = 2
     /\ call.args.colours[1] = call.args.colours[2])
    => /\ call.ret = "TRUE"
       /\ \A i \in 3..Placed : PaletteAt(Palette, i) \in RampColours

(***************************************************************************)
(* The path buffer                                                         *)
(***************************************************************************)

AppendOps == DOMAIN ElementSize

PathDrawOps == {"game_draw_plot_path", "game_draw_fill_path"}

\* C18: a step that appends an element which does not fit in the 256 words
\* of the buffer returns FALSE and leaves the path invalid; an append to an
\* invalid path leaves it invalid, whether the element fits or not; a
\* game_draw_plot_path or game_draw_fill_path of an invalid path calls
\* neither Draw_Stroke nor Draw_Fill, returns no error and leaves the path
\* and the pixels alone; and game_draw_start_path leaves the path empty and
\* valid.
C18_InvalidPathUntilStartPath ==
    [][/\ (/\ call'.op \in AppendOps
           /\ path.length + ElementSize[call'.op] > GAME_DRAW_BUFFER_LENGTH)
          => (~path'.valid /\ call'.ret = "FALSE" /\ path'.length = path.length)
       /\ (call'.op \in AppendOps /\ ~path.valid) => ~path'.valid
       /\ (call'.op \in PathDrawOps /\ ~path.valid)
          => (/\ call'.log = <<>>
              /\ call'.ret = "NULL"
              /\ path' = path
              /\ image' = image)
       /\ (call'.op \in PathDrawOps /\ path.valid /\ call'.ret = "NULL")
          => Len(call'.log) = 1
       /\ call'.op = "game_draw_start_path"
          => (path'.length = 0 /\ path'.valid)]_vars

\* An invalid path holding an appended element has been sent to be drawn.
C18_InvalidPathSentToDraw ==
    /\ call.op \in PathDrawOps
    /\ ~path.valid
    /\ path.length = GAME_DRAW_BUFFER_LENGTH
    /\ call.log = <<>>

(***************************************************************************)
(* The transform from the coordinates of the game to those of the canvas   *)
(***************************************************************************)

\* The row of the canvas, counted from the bottom, that a row of the game,
\* counted from the top, is plotted in.
RowPlotted(canvas_y, y) ==
    game_window_convert_y_coordinate_to_canvas(canvas_y, y) \div CANVAS_PIXEL_SIZE

\* C19: a game_window_plot that succeeds sends OS_Plot the point
\* (CANVAS_PIXEL_SIZE * x, CANVAS_PIXEL_SIZE * (height - (y + 1))); for every
\* row y of a canvas of that height, 0 <= y < height, the point
\* (x, height - 1 - y) is sent as (CANVAS_PIXEL_SIZE * x, CANVAS_PIXEL_SIZE * y);
\* the flip of the rows is its own inverse and takes the rows 0 .. height - 1
\* one to one onto 0 .. CANVAS_PIXEL_SIZE * (height - 1); and a point plotted
\* at column x of row y of the game sets the pixel x of row height - 1 - y of
\* the sprite.
C19_RowsFlippedAboutTopRow ==
    [][(call'.op = "game_window_plot" /\ call'.ret = "TRUE")
       => LET height == canvas_get_size(canvas).y
              width == canvas_get_size(canvas).x
              plot_code == call'.args[1]
              x == call'.args[2][1]
              row == call'.args[2][2]
              rows == 0..(height - 1)
          IN  /\ call'.log = <<[op |-> "xos_plot", code |-> plot_code,
                                x |-> CANVAS_PIXEL_SIZE * x,
                                y |-> CANVAS_PIXEL_SIZE * (height - (row + 1))]>>
              /\ \A y \in rows :
                    row = height - 1 - y
                    => (/\ call'.log[1].x = CANVAS_PIXEL_SIZE * x
                        /\ call'.log[1].y = CANVAS_PIXEL_SIZE * y)
              /\ \A y \in rows :
                    /\ game_window_convert_y_coordinate_to_canvas(height, height - 1 - y)
                           = CANVAS_PIXEL_SIZE * y
                    /\ RowPlotted(height, y) \in rows
                    /\ RowPlotted(height, RowPlotted(height, y)) = y
              /\ {game_window_convert_y_coordinate_to_canvas(height, y) : y \in rows}
                     = {CANVAS_PIXEL_SIZE * y : y \in rows}
              /\ (/\ plot_code # "os_MOVE_TO"
                  /\ vdu.clip = <<>>
                  /\ x \in 0..(width - 1)
                  /\ row \in rows)
                 => /\ image'[<<x, height - 1 - row>>] = vdu.colour
                    /\ \A pixel \in DOMAIN image \ {<<x, height - 1 - row>>} :
                          image'[pixel] = image[pixel]]_vars

\* A point has been plotted in the bottom row of the game on the tallest
\* canvas, and the bottom row of the sprite holds it.
C19_BottomRowPlotted ==
    /\ call.op = "game_window_plot"
    /\ call.ret = "TRUE"
    /\ call.args = <<"os_PLOT_POINT | os_PLOT_TO", <<0, MaxRows - 1>>>>
    /\ canvas_get_size(canvas).y = MaxRows
    /\ image[<<0, 0>>] = 1
    /\ image[<<0, MaxRows - 1>>] = 0

(***************************************************************************)
(* The graphics window                                                     *)
(***************************************************************************)

\* The coordinate VDU 24 reads from the bytes at places first and first + 1
\* of the bytes written: two bytes, low byte first, as a signed number.
IssuedCoordinate(log, first) == Coordinate16(log[first].c + (256 * log[first + 1].c))

\* C20: a game_window_set_clip that succeeds writes VDU 24 with left, bottom,
\* right and top the transforms of x0, y1, x1 and y0; whenever x0 <= x1 and
\* y0 <= y1 the rectangle written has left <= right and bottom <= top; and a
\* game_window_clear_clip that succeeds leaves no graphics window set.
C20_ClipIssuedInOrder ==
    [][/\ (call'.op = "game_window_set_clip" /\ call'.ret = "TRUE")
          => LET size == canvas_get_size(canvas)
                 x0 == call'.args[1]
                 y0 == call'.args[2]
                 x1 == call'.args[3]
                 y1 == call'.args[4]
                 left == IssuedCoordinate(call'.log, 2)
                 bottom == IssuedCoordinate(call'.log, 4)
                 right == IssuedCoordinate(call'.log, 6)
                 top == IssuedCoordinate(call'.log, 8)
             IN  /\ Len(call'.log) = 9
                 /\ call'.log[1].c = 24
                 /\ left = game_window_convert_x_coordinate_to_canvas(size.x, x0)
                 /\ bottom = game_window_convert_y_coordinate_to_canvas(size.y, y1)
                 /\ right = game_window_convert_x_coordinate_to_canvas(size.x, x1)
                 /\ top = game_window_convert_y_coordinate_to_canvas(size.y, y0)
                 /\ (x0 <= x1 /\ y0 <= y1) => (left <= right /\ bottom <= top)
       /\ (call'.op = "game_window_clear_clip" /\ call'.ret = "TRUE")
          => vdu'.clip = <<>>]_vars

(***************************************************************************)
(* The drawing callbacks                                                   *)
(***************************************************************************)

\* The calls of the log whose op is among ops.
CallsOf(log, ops) == {i \in 1..Len(log) : log[i].op \in ops}

\* The OS_Plot calls of the log with the plot code.
PlotsOf(log, plot_code) ==
    {i \in CallsOf(log, {"xos_plot"}) : log[i].code = plot_code}

\* C21: a riscos_draw_polygon with fillcolour -1 calls no Draw_Fill and one
\* with outlinecolour -1 no Draw_Stroke; a riscos_draw_circle with fillcolour
\* -1 plots no filled circle and one with outlinecolour -1 no circle outline;
\* and with both -1 either leaves every pixel as it was.
C21_ComponentOmittedWhenMinusOne ==
    [][/\ call'.op = "riscos_draw_polygon"
          => /\ call'.args.fillcolour = -1
                => CallsOf(call'.log, {"xdraw_fill"}) = {}
             /\ call'.args.outlinecolour = -1
                => CallsOf(call'.log, {"xdraw_stroke"}) = {}
       /\ call'.op = "riscos_draw_circle"
          => /\ call'.args.fillcolour = -1
                => PlotsOf(call'.log, "os_PLOT_CIRCLE | os_PLOT_TO") = {}
             /\ call'.args.outlinecolour = -1
                => PlotsOf(call'.log, "os_PLOT_CIRCLE_OUTLINE | os_PLOT_TO") = {}
       /\ (/\ call'.op \in {"riscos_draw_polygon", "riscos_draw_circle"}
           /\ call'.args.fillcolour = -1
           /\ call'.args.outlinecolour = -1)
          => image' = image]_vars

\* The ops of the calls in the log.
OpsOf(log) == {log[i].op : i \in 1..Len(log)}

\* The polygon that runs round the edge of the canvas.
WholeCanvas == << <<0, 0>>, <<2, 0>>, <<2, 2>>, <<0, 2>> >>

\* C22: in a drawing session, a closed path ended with an outline colour and
\* a fill colour, no call of the operating system failing, ends with four
\* calls in this order: the fill colour selected, Draw_Fill, the outline
\* colour selected, Draw_Stroke.  The outline colour is left selected, and for
\* the path round the edge of the canvas the centre pixel holds the fill
\* colour and every other pixel, the corners among them, the outline colour.
C22_FilledThenStroked ==
    [][(/\ call'.op = "riscos_draw_polygon"
        /\ canvas_is_redirection_active(canvas)
        /\ call'.args.fillcolour # -1
        /\ call'.args.outlinecolour # -1
        /\ "error_report_os_error" \notin OpsOf(call'.log))
       => LET n == Len(call'.log)
              fill == call'.args.fillcolour
              outline == call'.args.outlinecolour
          IN  /\ n >= 4
              /\ SubSeq(call'.log, n - 3, n)
                     = <<[op |-> "xos_set_colour", c |-> fill],
                         [op |-> "xdraw_fill", a |-> ""],
                         [op |-> "xos_set_colour", c |-> outline],
                         [op |-> "xdraw_stroke", a |-> ""]>>
              /\ vdu'.colour = outline
              /\ call'.args.coords = WholeCanvas
                 => \A pixel \in DOMAIN image' :
                       image'[pixel] = IF pixel = <<1, 1>> THEN fill ELSE outline]_vars

\* The path round the edge of the canvas has been ended with outline colour 1
\* and fill colour 2: a corner holds colour 1 and the centre colour 2.
C22_CornerOutlineCentreFill ==
    /\ call.op = "riscos_draw_polygon"
    /\ call.args = [coords |-> WholeCanvas, fillcolour |-> 2, outlinecolour |-> 1]
    /\ Len(call.log) = 5
    /\ image[<<0, 0>>] = 1
    /\ image[<<1, 1>>] = 2

(***************************************************************************)
(* The end of a drawing session                                            *)
(***************************************************************************)

\* C23: a game_window_end_draw that ends the session (returns TRUE) was made
\* with redirection active, writes VDU 26 to reset the graphics window first
\* and switches output back to the saved context last; when the operating
\* system reports no error these are its only two calls, no graphics window
\* is left set, and output goes where it went before the session.
C23_ClipResetBeforeRedirectionStopped ==
    [][(call'.op = "game_window_end_draw" /\ call'.ret = "TRUE")
       => LET n == Len(call'.log)
          IN  /\ canvas_is_redirection_active(canvas)
              /\ vdu.output = "canvas"
              /\ ~canvas_is_redirection_active(canvas')
              /\ n >= 2
              /\ call'.log[1].op = "xos_writec"
              /\ call'.log[n] = [op |-> "xosspriteop_switch_output_to_sprite",
                                 a |-> canvas.saved_context]
              /\ vdu'.output = canvas.saved_context
              /\ "error_report_os_error" \notin OpsOf(call'.log)
                 => /\ call'.log = <<[op |-> "xos_writec", c |-> 26],
                                      [op |-> "xosspriteop_switch_output_to_sprite",
                                       a |-> canvas.saved_context]>>
                    /\ vdu'.clip = <<>>]_vars

\* A session has been ended with the two calls, and output is back on the
\* screen with no graphics window set.
C23_SessionEndedClipReset ==
    /\ call.op = "game_window_end_draw"
    /\ call.ret = "TRUE"
    /\ Len(call.log) = 2
    /\ call.log[1] = [op |-> "xos_writec", c |-> 26]
    /\ vdu.output = "screen"
    /\ vdu.clip = <<>>

(***************************************************************************)
(* Operations on a canvas that lacks an image, a save area or a palette    *)
(***************************************************************************)

\* C24: a canvas_start_redirection on a canvas with no image or with no save
\* area returns FALSE, and the redirection flag is clear after it.
C24_StartRefusedWithoutImageOrSaveArea ==
    [][(/\ call'.op = "canvas_start_redirection"
        /\ (~HasImage(canvas) \/ canvas.save_area = NULL))
       => /\ call'.ret = "FALSE"
          /\ canvas'.redirection_active = FALSE]_vars

\* C25: a canvas_set_game_colours on a canvas that has no sprite area, or
\* made straight after a canvas_configure_area that succeeded without a
\* palette, returns FALSE and leaves the canvas, its image and its palette
\* words as they were.
C25_ColoursRefusedWithoutPalette ==
    [][(/\ call'.op = "canvas_set_game_colours"
        /\ \/ canvas.sprite_area = NULL
           \/ /\ call.op = "canvas_configure_area"
              /\ call.ret = "TRUE"
              /\ call.args.include_palette = FALSE)
       => /\ call'.ret = "FALSE"
          /\ canvas' = canvas
          /\ image' = image]_vars

\* Two colours have been refused by a canvas whose sprite has no palette.
C25_RefusedBySpriteWithoutPalette ==
    /\ call.op = "canvas_set_game_colours"
    /\ call.ret = "FALSE"
    /\ call.args.number_of_colours = 2
    /\ HasImage(canvas)
    /\ canvas.sprite_area[1].sprite.image = CANVAS_SPRITE_HEADER_SIZE

\* C26: canvas_get_palette_entry(i) on a canvas whose sprite has a palette,
\* for 0 <= i < 256, returns the colour stored in entry i (whatever the memory
\* holds, if the entry has never been written); in every other case, i < 0,
\* i >= 256, no sprite or a sprite with no palette, it returns black.
C26_StoredColourOrBlack ==
    [][call'.op = "canvas_get_palette_entry"
       => LET i == call'.args[1]
              has_palette == /\ HasImage(canvas)
                             /\ canvas.sprite_area[1].sprite.image
                                    # CANVAS_SPRITE_HEADER_SIZE
              stored == PaletteAt(canvas.sprite_area[1].palette, i + 1)
          IN  IF has_palette /\ 0 <= i /\ i < 256
                  THEN IF stored # Undef THEN call'.colour = stored
                                         ELSE call'.colour \in Garbage
                  ELSE call'.colour = os_COLOUR_BLACK]_vars

\* Entry 256 has been asked of a programmed palette whose last entry, 255, is
\* white, and black has been returned.
C26_BlackBeyondTable ==
    /\ call.op = "canvas_get_palette_entry"
    /\ call.args = <<CANVAS_MAX_PALETTE_ENTRIES>>
    /\ PaletteProgrammed(canvas)
    /\ PaletteAt(canvas.sprite_area[1].palette, CANVAS_MAX_PALETTE_ENTRIES) = os_COLOUR_WHITE
    /\ call.colour = os_COLOUR_BLACK

\* C27: blitter_delete called with a blitter that is not NULL and is not in the
\* list of the set returns FALSE, reports the error BadBlitterSet, frees
\* nothing, and leaves the list of the set and every block as they were.
NotInList(heap, s, ptr) ==
    LET chain == Chain(heap, s.blitters)
    IN  \A i \in DOMAIN chain : chain[i] # ptr[1]

C27_NonMemberRefused ==
    [][(call'.op = "blitter_delete" /\ call'.args.blitter # NULL
            /\ NotInList(blitter, set, call'.args.blitter))
        => /\ call'.ret = "FALSE"
           /\ Len(call'.log) = 1
           /\ OpsOf(call'.log) = {"error_msgs_report_error"}
           /\ call'.log[1].a = "BadBlitterSet"
           /\ set' = set
           /\ blitter' = blitter]_vars

\* A blitter that is not in a set of one member has been refused.
C27_NonMemberOfFullSetRefused ==
    /\ call.op = "blitter_delete"
    /\ call.args.blitter # NULL
    /\ call.ret = "FALSE"
    /\ set.blitters # NULL
    /\ NotInList(blitter, set, call.args.blitter)

\* The calls of free() in the log that free a struct blitter_block.
BlocksFreed(log) == {i \in CallsOf(log, {"free"}) : "c" \in DOMAIN log[i]}

\* C28: blitter_delete_set, once called with a set, returns; each turn of its
\* loop takes the head off the list and frees it; and when the set is freed
\* the list is empty and no blitter of the set is left on the heap.
C28_DeleteSetTerminatesWithEveryBlitterDeleted ==
    /\ InDeleteSet ~> (call.op = "blitter_delete_set" /\ call.ret = "void" /\ set = NULL)
    /\ [][(InDeleteSet /\ call'.ret = "running" /\ call' # call)
            => /\ Chain(blitter', set'.blitters) = Tail(Chain(blitter, set.blitters))
               /\ blitter'[set.blitters[1]] = NULL
               /\ call'.log[Len(call'.log)].op = "free"]_vars
    /\ [][(InDeleteSet /\ call'.ret = "void")
            => /\ set.blitters = NULL
               /\ \A address \in Addresses : blitter[address] = NULL
               /\ Cardinality(BlocksFreed(call'.log)) = call.args.members
               /\ call'.log[Len(call'.log)].a = "set"]_vars

\* A set of MaxBlitters blitters has been deleted.
C28_FullSetDeleted ==
    /\ call.op = "blitter_delete_set"
    /\ call.ret = "void"
    /\ call.args.members = MaxBlitters
    /\ set = NULL

\* C29: on a canvas with no sprite area, or with an area that holds no sprite,
\* canvas_configure_save_area, canvas_prepare_redraw, canvas_get_sprite and
\* canvas_put_sprite return FALSE, canvas_redraw_sprite and canvas_save_sprite
\* return, and none of the six calls anything or changes the canvas, its
\* image or the output.
NeedingImage ==
    {"canvas_configure_save_area", "canvas_prepare_redraw", "canvas_get_sprite",
     "canvas_put_sprite", "canvas_redraw_sprite", "canvas_save_sprite"}

NoImage(instance) ==
    \/ instance.sprite_area = NULL
    \/ instance.sprite_area[1].first = instance.sprite_area[1].used

C29_NothingDoneWithoutImage ==
    [][(call'.op \in NeedingImage /\ NoImage(canvas))
        => /\ call'.ret = (IF call'.op \in {"canvas_redraw_sprite", "canvas_save_sprite"}
                              THEN "void" ELSE "FALSE")
           /\ call'.log = <<>>
           /\ canvas' = canvas
           /\ image' = image
           /\ target' = target]_vars

\* A plot has been asked of a canvas that lost its image, and its save area
\* is still held.
C29_PutRefusedAfterImageLost ==
    /\ call.op = "canvas_put_sprite"
    /\ call.ret = "FALSE"
    /\ canvas.save_area # NULL
    /\ NoImage(canvas)

\* What was allocated for the blitter in the block: the block, and with a
\* canvas the struct canvas_block, its sprite area and its save area.
OwnedBy(block) ==
    {"blitter_block"}
        \cup (IF block.canvas = NULL THEN {}
              ELSE {"canvas_block"}
                       \cup (IF block.canvas[1].sprite_area # NULL THEN {"sprite_area"} ELSE {})
                       \cup (IF block.canvas[1].save_area # NULL THEN {"save_area"} ELSE {}))

\* What the calls of free() in the log were given.
Freed(log) ==
    {IF "c" \in DOMAIN log[i] THEN "blitter_block" ELSE log[i].a : i \in CallsOf(log, {"free"})}

\* C30: a blitter_delete that returns TRUE has freed everything allocated for
\* the blitter: the struct blitter_block, the struct canvas_block of its
\* canvas, the sprite area and the save area.
C30_EverythingReleased ==
    [][(call'.op = "blitter_delete" /\ call'.ret = "TRUE")
        => OwnedBy(blitter[call'.args.blitter[1]][1]) \subseteq Freed(call'.log)]_vars

\* All but the struct canvas_block is freed.
C30_AllButCanvasBlockReleased ==
    [][(call'.op = "blitter_delete" /\ call'.ret = "TRUE")
        => /\ OwnedBy(blitter[call'.args.blitter[1]][1]) \ {"canvas_block"} \subseteq Freed(call'.log)
           /\ "canvas_block" \notin Freed(call'.log)
           /\ blitter'[call'.args.blitter[1]] = NULL]_vars

\* Where Font_Paint was told to paint, in the log of a call that reached it.
PaintedAt(log) == log[CHOOSE i \in CallsOf(log, {"xfont_paint"}) : TRUE].at

\* The offset of the claim, in millipoints: left, centre or right by the
\* horizontal flag, and centre or baseline by the vertical one.
ClaimedOffset(align, bbox) ==
    LET width == bbox.x1 - bbox.x0
        height == bbox.y1 - bbox.y0
    IN  [x |-> IF 0 \in align THEN -(bbox.x0 + CDiv(width, 2))
               ELSE IF 1 \in align THEN -(bbox.x0 + width)
               ELSE -bbox.x0,
         y |-> IF 8 \in align THEN -(bbox.y0 + CDiv(height, 2)) ELSE 0]

TextPaintedAtOffset(args, size, log, offset) ==
    PaintedAt(log) =
        <<game_window_convert_x_coordinate_to_canvas(size.x, args.point[1])
              + xfont_convertto_os(offset.x),
          game_window_convert_y_coordinate_to_canvas(size.y, args.point[2])
              + xfont_convertto_os(offset.y)>>

\* C31: a game_window_write_text that reaches Font_Paint paints at the
\* transformed (x, y) moved by the offset of the alignment: -bbox.x0 for
\* left, -(bbox.x0 + width/2) for centre, -(bbox.x0 + width) for right, and
\* -(bbox.y0 + height/2) for vertical centre, 0 for the baseline.
C31_TextOffsetByAlignment ==
    [][(call'.op = "game_window_write_text" /\ CallsOf(call'.log, {"xfont_paint"}) # {})
        => TextPaintedAtOffset(call'.args, canvas.size, call'.log,
               ClaimedOffset(call'.args.align, xfont_scan_string(call'.args.text)))]_vars

\* With a horizontal flag that has a bit, centre or right, the text is painted
\* at the offset of the claim.
C31_CentredOrRightOffset ==
    [][(/\ call'.op = "game_window_write_text"
        /\ CallsOf(call'.log, {"xfont_paint"}) # {}
        /\ call'.args.align \cap {0, 1} # {})
        => TextPaintedAtOffset(call'.args, canvas.size, call'.log,
               ClaimedOffset(call'.args.align, xfont_scan_string(call'.args.text)))]_vars

\* Left aligned text is painted with no horizontal offset, whatever bbox.x0.
C31_LeftAlignedNotOffset ==
    [][(/\ call'.op = "game_window_write_text"
        /\ CallsOf(call'.log, {"xfont_paint"}) # {}
        /\ call'.args.align \cap {0, 1} = {})
        => PaintedAt(call'.log)[1] =
               game_window_convert_x_coordinate_to_canvas(canvas.size.x,
                                                          call'.args.point[1])]_vars

\* C32: whenever the redirection flag of the canvas is set, the canvas has its
\* image and its save area, so that canvas_is_redirection_active reports TRUE
\* and canvas_stop_redirection is not refused for the lack of either.
C32_OpenSessionKeepsImageAndSaveArea ==
    canvas.redirection_active = TRUE
        => /\ HasImage(canvas)
           /\ canvas.save_area # NULL
           /\ canvas_is_redirection_active(canvas)

\* A canvas_configure_area that succeeds during a session keeps the image and
\* the save area, and the flag with them.
C32_SuccessfulConfigureKeepsSession ==
    [][(/\ call'.op = "canvas_configure_area"
        /\ call'.ret = "TRUE"
        /\ canvas_is_redirection_active(canvas))
        => canvas_is_redirection_active(canvas')]_vars

\* C33 (as claimed): a canvas_start_redirection called straight after a
\* canvas_configure_area, or after a canvas_configure_save_area that failed,
\* with no successful canvas_configure_save_area in between, returns FALSE.
C33_StartFailsUnlessSaveAreaConfiguredAfresh ==
    [][(/\ call'.op = "canvas_start_redirection"
        /\ \/ call.op = "canvas_configure_area"
           \/ call.op = "canvas_configure_save_area" /\ call.ret = "FALSE")
        => call'.ret = "FALSE"]_vars

\* C33 (as amended): a canvas_start_redirection returns TRUE only on a canvas
\* that has an image and holds a save area, and straight after a
\* canvas_configure_area the save area it hands over has its first word zero.
C33_StartNeedsImageAndSaveArea ==
    [][(call'.op = "canvas_start_redirection" /\ call'.ret = "TRUE")
        => /\ canvas.sprite_area # NULL
           /\ canvas.save_area # NULL
           /\ call.op = "canvas_configure_area" => canvas.save_area[1].word0 = 0]_vars

\* A session has been started on a canvas whose image and save area are in
\* place.
C33_SessionStarted ==
    /\ call.op = "canvas_start_redirection"
    /\ call.ret = "TRUE"
    /\ canvas.save_area # NULL
    /\ canvas.save_area[1].word0 = 1

\* Whether the canvas of the window is fully configured for a game of n
\* colours on x by y pixels.
FullyConfigured(w, instance, x, y, n) ==
    /\ instance.sprite_area # NULL
    /\ instance.sprite_area[1].first # instance.sprite_area[1].used
    /\ instance.sprite_area[1].sprite.width = x
    /\ instance.sprite_area[1].sprite.height = y
    /\ instance.size = [x |-> x, y |-> y]
    /\ PaletteProgrammed(instance)
    /\ instance.save_area # NULL
    /\ w.number_of_colours = n

\* C34: a game_window_create_canvas that returns TRUE for x > 0 and y > 0
\* leaves the canvas with an image of x by y pixels, a programmed palette and
\* a save area, and the window with the number of colours it was given.
C34_CreatedCanvasFullyConfigured ==
    [][(/\ call'.op = "game_window_create_canvas"
        /\ call'.ret = "TRUE"
        /\ call'.args.x > 0
        /\ call'.args.y > 0)
        => FullyConfigured(window', canvas', call'.args.x, call'.args.y,
                           call'.args.number_of_colours)]_vars

\* A call that gets past the test of the size and returns TRUE leaves the
\* canvas fully configured.
C34_ConfiguredWhenNotSkipped ==
    [][(/\ call'.op = "game_window_create_canvas"
        /\ call'.ret = "TRUE"
        /\ call'.log # <<>>)
        => FullyConfigured(window', canvas', call'.args.x, call'.args.y,
                           call'.args.number_of_colours)]_vars

\* C35: after a canvas_set_game_colours that returns TRUE for 0 <= n < 256,
\* the entries written before the fill stop short of entry 255, and entry 255
\* is white.
C35_LastEntryWhite ==
    (/\ call.op = "canvas_set_game_colours"
     /\ call.ret = "TRUE"
     /\ call.args.number_of_colours >= 0
     /\ call.args.number_of_colours < CANVAS_MAX_PALETTE_ENTRIES)
    => /\ Len(canvas.sprite_area[1].palette.entries) < CANVAS_MAX_PALETTE_ENTRIES
       /\ PaletteAt(canvas.sprite_area[1].palette, CANVAS_MAX_PALETTE_ENTRIES)
              = os_COLOUR_WHITE

\* The black to white gradient has filled the table up to entry 254, and the
\* fill has written entry 255 alone.
C35_GradientStoppedBeforeLastEntry ==
    /\ call.op = "canvas_set_game_colours"
    /\ call.ret = "TRUE"
    /\ call.args.number_of_colours = CANVAS_MAX_PALETTE_ENTRIES - 11
    /\ Len(canvas.sprite_area[1].palette.entries) = CANVAS_MAX_PALETTE_ENTRIES - 1

\* C36: the path is never longer than the 256 words of the buffer; an append
\* that returns TRUE adds the words of its element (3 for a move or a line,
\* 1 for a close, 2 for an end) and one element after those stored; and an
\* append that returns FALSE leaves the length and the elements as they were.
C36_PathWithinBufferAppendsWhole ==
    /\ [](path.length <= GAME_DRAW_BUFFER_LENGTH)
    /\ [][call'.op \in AppendOps
            => \/ /\ call'.ret = "TRUE"
                  /\ path'.length = path.length + ElementSize[call'.op]
                  /\ Len(path'.elements) = Len(path.elements) + 1
                  /\ SubSeq(path'.elements, 1, Len(path.elements)) = path.elements
               \/ /\ call'.ret = "FALSE"
                  /\ path'.length = path.length
                  /\ path'.elements = path.elements]_vars

\* A line has been refused with two words of the buffer left.
C36_LineRefusedWithTwoWordsLeft ==
    /\ call.op = "game_draw_add_line"
    /\ call.ret = "FALSE"
    /\ path.length = GAME_DRAW_BUFFER_LENGTH - 2
    /\ path.elements # <<>>

\* The palette entry a colour number selects holds the colour the game gave
\* under that number.
GameColourAt(instance, colour) ==
    /\ instance.sprite_area # NULL
    /\ colour >= 0
    /\ colour < Len(TestGameColours)
    /\ PaletteAt(instance.sprite_area[1].palette, colour + 1)
           = canvas_make_os_colour(FloatToByte(TestGameColours[colour + 1][1]),
                                   FloatToByte(TestGameColours[colour + 1][2]),
                                   FloatToByte(TestGameColours[colour + 1][3]))

\* C37: in a drawing session game_window_set_colour selects a colour only
\* for a number from 0 to below the window's number of colours, and the entry
\* selected is one of the game's colours, never one of the gradient or the
\* fill; for any other number it returns TRUE and leaves the colour as it was.
C37_OnlyGameColoursSelected ==
    [][(call'.op = "game_window_set_colour" /\ canvas_is_redirection_active(canvas))
         => LET colour == call'.args[1]
            IN  /\ vdu'.colour # vdu.colour \/ CallsOf(call'.log, {"xos_set_colour"}) # {}
                     => /\ colour >= 0
                        /\ colour < window.number_of_colours
                        /\ GameColourAt(canvas, colour)
                /\ (colour < 0 \/ colour >= window.number_of_colours)
                     => call'.ret = "TRUE" /\ vdu' = vdu]_vars

\* The part of C37 about the number of colours alone.
C37_OnlyNumbersBelowCountSelected ==
    [][(call'.op = "game_window_set_colour" /\ canvas_is_redirection_active(canvas))
         => LET colour == call'.args[1]
            IN  /\ vdu'.colour # vdu.colour
                     => colour >= 0 /\ colour < window.number_of_colours
                /\ (colour < 0 \/ colour >= window.number_of_colours)
                     => call'.ret = "TRUE" /\ vdu' = vdu]_vars

\* C38: a blitter_store_from_canvas that returns FALSE leaves the position
\* every blitter holds as it was.
C38_FailedStoreKeepsPosition ==
    [][(call'.op = "blitter_store_from_canvas" /\ call'.ret = "FALSE")
         => \A address \in Addresses :
               blitter[address] # NULL
                  => /\ blitter'[address] # NULL
                     /\ blitter'[address][1].position = blitter[address][1].position]_vars

\* The part of C38 that holds: no blitter, or a blitter with no canvas, and
\* nothing is changed.
C38_RefusedStoreChangesNothing ==
    [][(/\ call'.op = "blitter_store_from_canvas"
        /\ call'.ret = "FALSE"
        /\ call'.log = <<>>
        /\ \/ call'.args.blitter = NULL
           \/ blitter[call'.args.blitter[1]][1].canvas = NULL)
         => blitter' = blitter]_vars

\* The list with one address taken out, the rest in their order.
Without(chain, address) == SelectSeq(chain, LAMBDA member : member # address)

\* The blitters of the list hold in the second heap the canvas and the
\* position they hold in the first.
Kept(chain, before, after) ==
    \A i \in DOMAIN chain :
        /\ after[chain[i]] # NULL
        /\ after[chain[i]][1].canvas = before[chain[i]][1].canvas
        /\ after[chain[i]][1].position = before[chain[i]][1].position

\* C39: a blitter_delete that returns TRUE takes the blitter named, which was
\* in the list once, out of the list and leaves every other blitter in it
\* once, in the same order, with its canvas and its position; a
\* blitter_create that returns a blitter adds that one blitter, which was not
\* in the list, with the position (0, 0), and leaves the others as they were.
C39_DeleteRemovesOneCreateAddsOne ==
    [][/\ (call'.op = "blitter_delete" /\ call'.ret = "TRUE")
           => LET before == Chain(blitter, set.blitters)
                  named == call'.args.blitter[1]
              IN  /\ Cardinality({i \in DOMAIN before : before[i] = named}) = 1
                  /\ Chain(blitter', set'.blitters) = Without(before, named)
                  /\ Cardinality(Members(set', blitter')) = Len(before) - 1
                  /\ Kept(Without(before, named), blitter, blitter')
       /\ (call'.op = "blitter_create" /\ call'.ret = "pointer")
           => LET before == Chain(blitter, set.blitters)
                  new == call'.new[1]
              IN  /\ new \notin Members(set, blitter)
                  /\ Chain(blitter', set'.blitters) = <<new>> \o before
                  /\ blitter'[new][1].position = [x |-> 0, y |-> 0]
                  /\ Kept(before, blitter, blitter')]_vars

\* The middle one of three blitters has been deleted, and the two that are
\* left hold two positions away from (0, 0).
C39_MiddleOfThreeDeleted ==
    /\ call.op = "blitter_delete"
    /\ call.ret = "TRUE"
    /\ Len(call.was) = 3
    /\ call.was[2] = call.args.blitter[1]
    /\ LET chain == Chain(blitter, set.blitters)
       IN  /\ chain = <<call.was[1], call.was[3]>>
           /\ blitter[chain[1]][1].position # blitter[chain[2]][1].position
           /\ blitter[chain[1]][1].position # [x |-> 0, y |-> 0]
           /\ blitter[chain[2]][1].position # [x |-> 0, y |-> 0]

\* C40: callback_timer_active is TRUE exactly when one regular callback is
\* registered for the window, and never more than one is registered.
C40_TimerActiveIffOneCallback ==
    /\ window.callback_timer_active <=> window.events.callbacks = 1
    /\ window.events.callbacks <= 1

\* The part of C40 that holds: never more than one callback is registered,
\* and none is while the flag is FALSE.
C40_AtMostOneCallbackAndOnlyWhenActive ==
    /\ window.events.callbacks <= 1
    /\ window.events.callbacks = 1 => window.callback_timer_active

\* A start while active registers nothing, and a stop leaves no callback and
\* the flag FALSE.
C40_StartWhileActiveAddsNothing ==
    [][/\ (call'.op = "game_window_start_timer" /\ window.callback_timer_active)
           => window' = window /\ call'.ret = "TRUE"
       /\ call'.op = "game_window_stop_timer"
           => window'.events.callbacks = 0 /\ ~window'.callback_timer_active]_vars

====
